---- MODULE Spec2Model ----
(***************************************************************************)
(* The verification orchestration engine of kyb-ky-verification: the       *)
(* relational store (verifications, verification_data,                     *)
(* verification_results, ubo_verifications), the Arq job queue, the two    *)
(* submission operations of VerificationWorkflowService and the three      *)
(* worker functions run_kyc_verification, run_business_verification and    *)
(* run_agent_verification.  Every database commit and every queue          *)
(* operation of a worker run is one step, so that the states other         *)
(* sessions can observe between two commits are states of the model.       *)
(***************************************************************************)
EXTENDS Integers, Sequences, FiniteSets, TLC

\* ------------------------------------------------------------------ bounds
\* Rows of the verifications table that may ever be created.
MaxVerifications == 2
\* Submissions without a parent (the two API operations) that may ever be made.
MaxSubmissions == 1
\* Jobs that may ever be enqueued.
MaxJobs == 2
\* Redeliveries of jobs, all jobs together.
MaxRedeliveries == 1
\* Owner rows the external record store holds for one business.
MaxOwners == 1
\* Only the first MaxBad agents of a fan-out list may end other than with a
\* success result (the fan-out specification lets every agent).
MaxBad == 1
\* single_agent jobs that may ever be enqueued.
MaxAgentJobs == 1
\* Engine calls that raise, all runs and submissions together.
MaxFaults == 1
\* Agent tasks and document pipelines of one worker process that are at an
\* LLM call, or waiting for one, at the same time.
MaxLlmTasks == 12
\* Tasks of one process that call the external record store concurrently.
MaxDbTasks == 2
\* Length, in tokens, of the texts the LLM returns.
MaxTextLen == 4
\* Nesting depth of the values in a payload handed to
\* store_verification_data (a scalar is 0 deep).
MaxDepth == 2
\* Logins in the login_activities of one user.
MaxLogins == 3
\* Transactions in the bank accounts of one user, all accounts together.
MaxTransactions == 3
\* Documents of one inquiry.
MaxDocuments == 2

\* ------------------------------------------------------- program constants
\* settings.ARQ_MAX_WORKERS, the worker's max_jobs.
max_jobs == 4
\* _wait_for_ubo_verifications(timeout_minutes=30), check_interval = 30.
timeout_minutes == 30
check_interval == 30
\* ConnectionPool(max_connections=10), the value of its semaphore.
max_connections == 10
\* ExternalDatabase.get_business_data: max_retries = 3, retry_delay = 0.5 s
\* (in milliseconds).
max_retries == 3
retry_delay == 500

\* Python's None / SQL NULL, and a key that a dict does not hold.
None == "None"
MISSING == "<missing>"
\* No verification id.
NoId == 0
\* The writer tag of rows written by the API process.
ByApi == << 0, 0 >>

Users == {"u1"}
Businesses == {"b1"}

\* `if x:` on an Optional[str]: None and the empty string are falsy.
Truthy(x) == x \notin {None, "", MISSING}

\* dict.get(key, default): the default only when the key is missing.
Get(value, default) == IF value = MISSING THEN default ELSE value

\* ------------------------------------------------------------ agent catalog
kyc_agent_types ==
    << "InitialDiligence", "GovtIdVerification", "IdSelfieVerification",
       "AamvaVerification", "EmailPhoneIpVerification", "PaymentBehaviorAgent",
       "LoginActivitiesAgent", "SiftVerificationAgent", "IdCheckAgent",
       "OfacVerificationAgent" >>

kyb_agent_types ==
    << "NormalDiligence", "IrsMatchAgent", "SosFilingsAgent", "EinLetterAgent",
       "ArticlesIncorporationAgent" >>

\* The agent_type each registered agent writes into its own result.
AgentClassName(agent_type) ==
    CASE agent_type = "DataAcquisition" -> "DataAcquisitionAgent"
      [] agent_type = "InitialDiligence" -> "InitialDiligenceAgent"
      [] agent_type = "GovtIdVerification" -> "GovtIdVerificationAgent"
      [] agent_type = "IdSelfieVerification" -> "IdSelfieVerificationAgent"
      [] agent_type = "AamvaVerification" -> "AamvaVerificationAgent"
      [] agent_type = "EmailPhoneIpVerification" -> "EmailPhoneIpVerificationAgent"
      [] agent_type = "NormalDiligence" -> "NormalDiligenceAgent"
      [] agent_type = "ResultCompilation" -> "ResultCompilationAgent"
      [] agent_type = "BusinessResultCompilation" -> "BusinessResultCompilationAgent"
      [] OTHER -> agent_type

CompilationTypes == {"ResultCompilationAgent", "BusinessResultCompilationAgent"}

VARIABLES
    verifications,          \* table verifications; the verification id is the index
    verification_data,      \* table verification_data (VerificationInput): per
                            \* verification id, its rows in append order
    verification_results,   \* table verification_results (AgentResult): per
                            \* verification id, its rows in append order
    ubo_verifications,      \* table ubo_verifications (UboLink): per parent
                            \* verification id, its rows in append order
    jobs,                   \* every job ever enqueued: payload, queue state, tries
    run,                    \* per job: the locals of the worker run that holds it
    api,                    \* the submission in flight in the API process
    llm_calls,              \* the LLM invocations in flight in the worker process
    external_db,            \* the ExternalDatabase singleton: pool, lock, flag
    reads,                  \* per task: the ExternalDatabase read it is in
    call                    \* the request or call under study: arguments and result

\* The state of the verification engine, and the state of the components its
\* agents share.
engine == << verifications, verification_data, verification_results,
            ubo_verifications, jobs, run, api >>
components == << llm_calls, external_db, reads, call >>

vars == << verifications, verification_data, verification_results,
           ubo_verifications, jobs, run, api, llm_calls, external_db, reads, call >>

\* ------------------------------------------------------------------- store
\* Database.create_verification: one committed row.  by is the (job, try) of
\* the worker run that created the row, ByApi for a submission: bookkeeping
\* for the properties, not a column.
create_verification(vs, user_id, business_id, status, by) ==
    Append(vs, [user_id |-> user_id, business_id |-> business_id,
                status |-> status, result |-> None, reason |-> None,
                completed_at |-> FALSE, by |-> by])

\* Database.update_verification_status: result and reason are written only
\* when truthy; completed_at is set on completed and failed, never cleared.
update_verification_status(vs, verification_id, status, result, reason) ==
    IF verification_id \notin DOMAIN vs
    THEN vs
    ELSE [vs EXCEPT ![verification_id] =
            [@ EXCEPT !.status = status,
                      !.result = IF Truthy(result) THEN result ELSE @,
                      !.reason = IF Truthy(reason) THEN reason ELSE @,
                      !.completed_at = IF status \in {"completed", "failed"}
                                       THEN TRUE ELSE @]]

\* Database.store_verification_data: one appended row.
store_verification_data(vd, verification_id, data_type, data) ==
    [vd EXCEPT ![verification_id] = Append(@, [data_type |-> data_type, data |-> data])]

\* Database.store_agent_result, first commit: a compilation result with a
\* truthy verification_result completes the verification.
store_agent_result_status(vs, verification_id, agent_result) ==
    IF /\ agent_result.agent_type \in CompilationTypes
       /\ Truthy(agent_result.verification_result)
    THEN update_verification_status(vs, verification_id, "completed",
             agent_result.verification_result, agent_result.reasoning)
    ELSE vs

\* Database.store_agent_result, second commit: the appended row.  by (the
\* (job, try) that wrote the row) and the verification_result and reasoning of
\* the result it was written from are bookkeeping for the properties, not
\* columns.
store_agent_result_row(vr, verification_id, agent_result, by) ==
    [vr EXCEPT ![verification_id] =
        Append(@, [agent_type |-> agent_result.agent_type,
                   status |-> agent_result.status,
                   checks |-> agent_result.checks,
                   verification_result |-> agent_result.verification_result,
                   reasoning |-> agent_result.reasoning,
                   by |-> by])]

\* Database.store_ubo_verifications with a one-element list.
store_ubo_verifications(uv, verification_id, ubo_user_id, ubo_verification_id, by) ==
    [uv EXCEPT ![verification_id] =
        Append(@, [ubo_user_id |-> ubo_user_id,
                   ubo_verification_id |-> ubo_verification_id, by |-> by])]

\* Database.get_verification_agent_results.
get_verification_agent_results(vr, verification_id) == vr[verification_id]

\* ------------------------------------------------------------------- queue
\* ArqRedis.enqueue_job: the job enters the queue with its payload.
\* origin and by record who enqueued it, finished that an earlier delivery of
\* the job ran to its return (bookkeeping, not part of the payload).
enqueue_job(js, function, verification_id, subject, additional_data, agent_type, origin, by) ==
    Append(js, [function |-> function, verification_id |-> verification_id,
                subject |-> subject, additional_data |-> additional_data,
                agent_type |-> agent_type, status |-> "queued", tries |-> 0,
                origin |-> origin, by |-> by, finished |-> FALSE])

\* The LLM call of a compilation agent: whether extract_data_with_llm was
\* called, the agent rows and the UBO entries it was given, and what it ended
\* with (bookkeeping for the properties).
NotCalled == [called |-> FALSE, agent_results |-> << >>, ubo_results |-> << >>,
              output |-> [raised |-> FALSE, verification_result |-> MISSING,
                          reasoning |-> MISSING]]

\* The external record store as one acquisition meets it: how the inquiry-id
\* lookup and the business-record read end ("found", "absent": no row,
\* "fails": every attempt raised), the user_id column of the business record,
\* the created_for_id of each row of the owner table, and whether
\* store_verification_data commits (persist).
NoExternal == [inquiry |-> None, record |-> None, record_user_id |-> None,
               owners |-> << >>, persist |-> TRUE]

NoResult == [agent_type |-> None, status |-> None, checks |-> None,
             verification_result |-> MISSING, reasoning |-> MISSING]

IdleRun == [pc |-> "idle", data_result |-> NoResult, owners |-> << >>,
            ubos |-> << >>, k |-> 0,
            ubo_verification_id |-> NoId, ubo_verification_ids |-> << >>,
            tasks |-> << >>, agent_results |-> << >>, i |-> 0,
            final_result |-> NoResult, llm_call |-> NotCalled,
            elapsed_time |-> 0, ret |-> None, error |-> None, db_error |-> FALSE,
            external |-> NoExternal, completed |-> << >>]

\* The worker process's LLM traffic: the value of connection_pool._semaphore,
\* the tasks waiting in its acquire(), the extract_structured_data calls in
\* flight under get_client, the invoke_model calls in flight in
\* classify_document and in extract_text_from_image, and the documents
\* between the two calls of process_document.
IdleLlm == [semaphore |-> max_connections, waiters |-> 0,
            extract_data_with_llm |-> 0, classify_document |-> 0,
            classified |-> 0, extract_text_from_image |-> 0]

\* ExternalDatabase.__init__: no pool, is_connecting False, the lock free
\* (connection_lock is the task that holds it, 0 for none).  pool_writes is
\* bookkeeping for the properties: the source line of every `self.pool = None`
\* executed so far and whether the writer held connection_lock.
NewExternalDatabase == [pool |-> None, is_connecting |-> FALSE, connection_lock |-> 0,
                        pool_writes |-> {}, stale |-> {}]

\* A task outside every read.  read is the method called, query the method
\* whose statement is being executed (get_business_owners runs
\* get_business_data first), attempt the loop variable, error the exception
\* in hand, sleeps the delays slept so far in milliseconds, kept the
\* operational errors after which the read went on without discarding the
\* pool, failed whether the read returned from an except branch, fate what
\* became of the connection the read acquired last: released into the pool
\* it came from, released into another pool, or dropped (never released).
IdleRead == [read |-> None, query |-> None, pc |-> "idle", attempt |-> 0,
             error |-> None, sleeps |-> << >>, kept |-> 0, failed |-> FALSE,
             result |-> None, fate |-> None]

\* No request or call under study.
NoCall == [fn |-> None, pc |-> "idle", args |-> None, result |-> None]

IdleApi == [pc |-> "idle", verification_id |-> NoId, user_id |-> None,
            business_id |-> None, parent_verification_id |-> NoId,
            additional_data |-> None]

\* additional_data of a submission: absent or empty, or an object whose
\* parent_business_id is the given business id.
AdditionalData == {None} \cup Businesses

\* The state after construction, but for the call under study.
InitState ==
    /\ verifications = << >>
    /\ verification_data = [v \in 1..MaxVerifications |-> << >>]
    /\ verification_results = [v \in 1..MaxVerifications |-> << >>]
    /\ ubo_verifications = [v \in 1..MaxVerifications |-> << >>]
    /\ jobs = << >>
    /\ run = << >>
    /\ api = IdleApi
    /\ llm_calls = IdleLlm
    /\ external_db = NewExternalDatabase
    /\ reads = [t \in 1..MaxDbTasks |-> IdleRead]

Init == InitState /\ call = NoCall

\* ------------------------------------------------------------- submissions
\* At most MaxSubmissions jobs are enqueued by submissions without a parent.
CanSubmit(parent_verification_id) ==
    parent_verification_id = NoId =>
        Cardinality({j \in DOMAIN jobs : jobs[j].origin = "api"}) < MaxSubmissions

\* start_kyc_verification, first commit: the Verification row, queued.
StartKycCreate(user_id, parent_verification_id, additional_data) ==
    /\ api.pc = "idle"
    /\ CanSubmit(parent_verification_id)
    /\ Len(verifications) < MaxVerifications
    /\ Len(jobs) < MaxJobs
    /\ verifications' = create_verification(verifications, user_id, None, "queued", ByApi)
    /\ api' = [pc |-> IF parent_verification_id # NoId THEN "kyc_link"
                      ELSE IF Truthy(additional_data) THEN "kyc_data"
                      ELSE "kyc_enqueue",
               verification_id |-> Len(verifications) + 1,
               user_id |-> user_id, business_id |-> None,
               parent_verification_id |-> parent_verification_id,
               additional_data |-> additional_data]
    /\ UNCHANGED << verification_data, verification_results, ubo_verifications,
                    jobs, run, components >>

\* start_kyc_verification: the link to the parent it was given.
StartKycLink ==
    /\ api.pc = "kyc_link"
    /\ ubo_verifications' = store_ubo_verifications(ubo_verifications,
           api.parent_verification_id, api.user_id, api.verification_id, ByApi)
    /\ api' = [api EXCEPT !.pc = IF Truthy(api.additional_data) THEN "kyc_data"
                                 ELSE "kyc_enqueue"]
    /\ UNCHANGED << verifications, verification_data, verification_results,
                    jobs, run, components >>

\* start_kyc_verification / start_business_verification: additional_data
\* persisted as a VerificationInput.
StartStoreData ==
    /\ api.pc \in {"kyc_data", "business_data"}
    /\ verification_data' = store_verification_data(verification_data,
           api.verification_id, "additional_data", api.additional_data)
    /\ api' = [api EXCEPT !.pc = IF api.pc = "kyc_data" THEN "kyc_enqueue"
                                 ELSE "business_enqueue"]
    /\ UNCHANGED << verifications, verification_results, ubo_verifications,
                    jobs, run, components >>

\* job_service.enqueue_kyc_verification, and the submission returns.
StartKycEnqueue ==
    /\ api.pc = "kyc_enqueue"
    /\ jobs' = enqueue_job(jobs, "run_kyc_verification", api.verification_id,
                           api.user_id, api.additional_data, None,
                           IF api.parent_verification_id = NoId THEN "api" ELSE "service",
                           ByApi)
    /\ run' = Append(run, IdleRun)
    /\ api' = IdleApi
    /\ UNCHANGED << verifications, verification_data, verification_results,
                    ubo_verifications, components >>

\* start_business_verification, first commit: the Verification row, queued.
StartBusinessCreate(business_id, additional_data) ==
    /\ api.pc = "idle"
    /\ CanSubmit(NoId)
    /\ Len(verifications) < MaxVerifications
    /\ Len(jobs) < MaxJobs
    /\ verifications' = create_verification(verifications, None, business_id, "queued", ByApi)
    /\ api' = [pc |-> IF Truthy(additional_data) THEN "business_data"
                      ELSE "business_enqueue",
               verification_id |-> Len(verifications) + 1,
               user_id |-> None, business_id |-> business_id,
               parent_verification_id |-> NoId,
               additional_data |-> additional_data]
    /\ UNCHANGED << verification_data, verification_results, ubo_verifications,
                    jobs, run, components >>

\* job_service.enqueue_business_verification, and the submission returns.
StartBusinessEnqueue ==
    /\ api.pc = "business_enqueue"
    /\ jobs' = enqueue_job(jobs, "run_business_verification", api.verification_id,
                           api.business_id, api.additional_data, None, "api", ByApi)
    /\ run' = Append(run, IdleRun)
    /\ api' = IdleApi
    /\ UNCHANGED << verifications, verification_data, verification_results,
                    ubo_verifications, components >>

\* ------------------------------------------------------------------ worker
Function(j) == jobs[j].function
Vid(j) == jobs[j].verification_id
By(j) == << j, jobs[j].tries >>
InProgress == {j \in DOMAIN jobs : jobs[j].status = "in_progress"}

SetRun(j, r) == run' = [run EXCEPT ![j] = r]

\* The Arq worker starts a queued job when one of its max_jobs slots is free.
Pickup(j) ==
    /\ jobs[j].status = "queued"
    /\ Cardinality(InProgress) < max_jobs
    /\ jobs' = [jobs EXCEPT ![j].status = "in_progress", ![j].tries = @ + 1]
    /\ SetRun(j, [IdleRun EXCEPT !.pc = IF Function(j) = "run_agent_verification"
                                        THEN "agent_run" ELSE "update_processing"])
    /\ UNCHANGED << verifications, verification_data, verification_results,
                    ubo_verifications, api, components >>

\* Both workflows, first write: update_verification_status(status="processing").
UpdateProcessing(j) ==
    /\ run[j].pc = "update_processing"
    /\ verifications' = update_verification_status(verifications, Vid(j),
                                                   "processing", None, None)
    /\ SetRun(j, [run[j] EXCEPT !.pc = "da_run"])
    /\ UNCHANGED << verification_data, verification_results, ubo_verifications,
                    jobs, api, components >>

\* _acquire_business_data: an owner row without created_for_id is skipped, the
\* others become the entries of ubos[] (the entry is its created_for_id).
AcquiredUbos(owners) == SelectSeq(owners, LAMBDA o : Truthy(o))

\* DataAcquisitionAgent.run: acquires, persists one VerificationInput per data
\* type and returns success; when persisting raises, returns status error.
\* owners keeps the owner rows the record store returned (bookkeeping).
DataAcquisitionResult(status) ==
    [agent_type |-> "DataAcquisitionAgent", status |-> status, checks |-> None,
     verification_result |-> MISSING, reasoning |-> MISSING]

DataAcquisition(j, ok, owners) ==
    /\ run[j].pc = "da_run"
    /\ LET business == Function(j) = "run_business_verification"
           ubos == IF business /\ ok THEN AcquiredUbos(owners) ELSE << >>
       IN /\ verification_data' =
                IF ok
                THEN store_verification_data(verification_data, Vid(j),
                         IF business THEN "business" ELSE "user", ubos)
                ELSE verification_data
          /\ SetRun(j, [run[j] EXCEPT
                 !.pc = "da_store",
                 !.data_result = DataAcquisitionResult(IF ok THEN "success" ELSE "error"),
                 !.owners = IF business /\ ok THEN owners ELSE << >>,
                 !.ubos = ubos])
    /\ UNCHANGED << verifications, verification_results, ubo_verifications, jobs, api, components >>

\* ExternalDatabase.get_persona_inquiry_id(self, user_id), called with the
\* positional arguments args: a call with another number of arguments raises
\* TypeError; a lookup that fails is logged and gives None, as a missing row.
get_persona_inquiry_id(args, ext) ==
    IF Len(args) # 1 THEN [raised |-> TRUE, value |-> None]
    ELSE [raised |-> FALSE, value |-> IF ext.inquiry = "found" THEN "inquiry-id" ELSE None]

\* ExternalDatabase.get_business_data: the row, None when there is none, and
\* after the last failed attempt the mock record, which has no user_id.
get_business_data(business_id, ext) ==
    CASE ext.record = "found" ->
             [found |-> TRUE, id |-> business_id, user_id |-> ext.record_user_id]
      [] ext.record = "fails" ->
             [found |-> TRUE, id |-> business_id, user_id |-> None]
      [] OTHER -> [found |-> FALSE, id |-> None, user_id |-> None]

\* ExternalDatabase.get_business_owners: the rows of the owner table.
get_business_owners(business_id, ext) ==
    IF get_business_data(business_id, ext).found THEN ext.owners ELSE << >>

\* An acquisition of user data that lets a failed inquiry-id lookup escape.
acquire_user_data_Propagating(user_id, ext) ==
    [raised |-> ext.inquiry = "fails", data |-> << >>]

\* DataAcquisitionAgent._acquire_user_data: every exception is caught and a
\* basic `user` input is built, so the method never raises.
acquire_user_data(user_id, ext) ==
    [raised |-> FALSE, data |-> << >>]

\* DataAcquisitionAgent._acquire_business_data: the ubos[] of the `business`
\* input.  Without a record or a user_id the input is minimal; the KYB
\* inquiry id is asked for with two arguments (user_id, "kyb"), and an
\* exception anywhere gives the minimal input of the except branch.
acquire_business_data(business_id, ext) ==
    LET user_kyb_record == get_business_data(business_id, ext)
        user_id == user_kyb_record.user_id
    IN [raised |-> FALSE,
        data |-> IF ~user_kyb_record.found \/ ~Truthy(user_id) THEN << >>
                 ELSE IF get_persona_inquiry_id(<< user_id, "kyb" >>, ext).raised
                      THEN << >>
                 ELSE AcquiredUbos(get_business_owners(business_id, ext))]

\* DataAcquisitionAgent.run against the external record store ext.
DataAcquisitionRun(j, ext) ==
    /\ run[j].pc = "da_run"
    /\ LET business == Function(j) = "run_business_verification"
           acquired == IF business THEN acquire_business_data(jobs[j].subject, ext)
                       ELSE acquire_user_data(jobs[j].subject, ext)
           ok == ~acquired.raised /\ ext.persist
       IN /\ verification_data' =
                IF ok
                THEN store_verification_data(verification_data, Vid(j),
                         IF business THEN "business" ELSE "user", acquired.data)
                ELSE verification_data
          /\ SetRun(j, [run[j] EXCEPT
                 !.pc = "da_store",
                 !.data_result = DataAcquisitionResult(IF ok THEN "success" ELSE "error"),
                 !.owners = IF business /\ ok THEN ext.owners ELSE << >>,
                 !.ubos = IF ok THEN acquired.data ELSE << >>,
                 !.external = ext])
    /\ UNCHANGED << verifications, verification_results, ubo_verifications, jobs, api, components >>

\* The loop reads the user id under a key the entries do not hold: every
\* entry is skipped.
NextUbo_WrongKey(ubos, k) == Len(ubos) + 1

\* The first entry of ubos after position k that has a user id
\* (`if ubo_user_id:`), or Len(ubos) + 1 when the loop is over.
NextUbo(ubos, k) ==
    IF \E n \in (k + 1)..Len(ubos) : Truthy(ubos[n])
    THEN CHOOSE n \in (k + 1)..Len(ubos) :
            /\ Truthy(ubos[n])
            /\ \A m \in (k + 1)..(n - 1) : ~Truthy(ubos[m])
    ELSE Len(ubos) + 1

AfterUbo(ubos, k) == IF NextUbo(ubos, k) <= Len(ubos) THEN "ubo_create" ELSE "gather"

\* The error test without its return: the workflow goes on after an
\* acquisition error.
StoreDataResult_NoReturn(j) ==
    /\ run[j].pc = "da_store"
    /\ verifications' = store_agent_result_status(verifications, Vid(j), run[j].data_result)
    /\ verification_results' = store_agent_result_row(verification_results, Vid(j),
                                                      run[j].data_result, By(j))
    /\ SetRun(j, [run[j] EXCEPT !.pc = "gather"])
    /\ UNCHANGED << verification_data, ubo_verifications, jobs, api, components >>

\* store_agent_result(verification_id, data_result), then the error test.
StoreDataResult(j) ==
    /\ run[j].pc = "da_store"
    /\ verifications' = store_agent_result_status(verifications, Vid(j), run[j].data_result)
    /\ verification_results' = store_agent_result_row(verification_results, Vid(j),
                                                      run[j].data_result, By(j))
    /\ SetRun(j, [run[j] EXCEPT
           !.pc = IF run[j].data_result.status = "error" THEN "da_failed"
                  ELSE IF Function(j) = "run_business_verification"
                       THEN AfterUbo(run[j].ubos, 0)
                  ELSE "gather",
           !.k = IF /\ run[j].data_result.status # "error"
                    /\ Function(j) = "run_business_verification"
                 THEN NextUbo(run[j].ubos, 0) ELSE 0])
    /\ UNCHANGED << verification_data, ubo_verifications, jobs, api, components >>

\* Data acquisition failed: the verification is failed and the run returns.
DataAcquisitionFailed(j) ==
    /\ run[j].pc = "da_failed"
    /\ verifications' = update_verification_status(verifications, Vid(j), "failed",
                            "failed", "Data acquisition failed")
    /\ SetRun(j, [run[j] EXCEPT !.pc = "returned", !.ret = "failed"])
    /\ UNCHANGED << verification_data, verification_results, ubo_verifications,
                    jobs, api, components >>

\* The child is enqueued right after its row is created, before the link.
UboCreate_EnqueueFirst(j) ==
    /\ run[j].pc = "ubo_create"
    /\ Len(verifications) < MaxVerifications
    /\ verifications' = create_verification(verifications, run[j].ubos[run[j].k],
                                            None, "queued", By(j))
    /\ SetRun(j, [run[j] EXCEPT !.pc = "ubo_enqueue",
                                !.ubo_verification_id = Len(verifications) + 1])
    /\ UNCHANGED << verification_data, verification_results, ubo_verifications,
                    jobs, api, components >>

\* A UBO loop that creates the child with the parent's business_id as well.
UboCreate_WithBusinessId(j) ==
    /\ run[j].pc = "ubo_create"
    /\ Len(verifications) < MaxVerifications
    /\ verifications' = create_verification(verifications, run[j].ubos[run[j].k],
                                            jobs[j].subject, "queued", By(j))
    /\ SetRun(j, [run[j] EXCEPT !.pc = "ubo_link",
                                !.ubo_verification_id = Len(verifications) + 1])
    /\ UNCHANGED << verification_data, verification_results, ubo_verifications,
                    jobs, api, components >>

\* run_business_verification, UBO loop: create_verification for the entry.
UboCreate(j) ==
    /\ run[j].pc = "ubo_create"
    /\ Len(verifications) < MaxVerifications
    /\ verifications' = create_verification(verifications, run[j].ubos[run[j].k],
                                            None, "queued", By(j))
    /\ SetRun(j, [run[j] EXCEPT !.pc = "ubo_link",
                                !.ubo_verification_id = Len(verifications) + 1])
    /\ UNCHANGED << verification_data, verification_results, ubo_verifications,
                    jobs, api, components >>

\* run_business_verification, UBO loop: store_ubo_verifications.
UboLink(j) ==
    /\ run[j].pc = "ubo_link"
    /\ ubo_verifications' = store_ubo_verifications(ubo_verifications, Vid(j),
           run[j].ubos[run[j].k], run[j].ubo_verification_id, By(j))
    /\ SetRun(j, [run[j] EXCEPT !.pc = "ubo_enqueue"])
    /\ UNCHANGED << verifications, verification_data, verification_results, jobs, api, components >>

\* run_business_verification, UBO loop: enqueue_job('run_kyc_verification') with
\* additional_data.parent_business_id = business_id, then the next entry.
UboEnqueue(j) ==
    /\ run[j].pc = "ubo_enqueue"
    /\ Len(jobs) < MaxJobs
    /\ jobs' = enqueue_job(jobs, "run_kyc_verification", run[j].ubo_verification_id,
                           run[j].ubos[run[j].k], jobs[j].subject, None, "workflow",
                           By(j))
    /\ run' = Append([run EXCEPT ![j] = [@ EXCEPT
           !.pc = AfterUbo(run[j].ubos, run[j].k),
           !.k = NextUbo(run[j].ubos, run[j].k),
           !.ubo_verification_ids = Append(@, run[j].ubo_verification_id)]], IdleRun)
    /\ UNCHANGED << verifications, verification_data, verification_results,
                    ubo_verifications, api, components >>

\* ------------------------------------------------------------------ fan-out
AgentTypes(j) == IF Function(j) = "run_business_verification" THEN kyb_agent_types
                 ELSE kyc_agent_types

\* What one fan-out task ends with: the agent's own result with status
\* success, its own result with status error (the agent caught the failure
\* itself), or an exception leaving run().
Outcomes == {"success", "error", "raise"}

\* gather without return_exceptions: the first exception ends the wait and
\* the tasks after it are cancelled.
gather_cancelling(outcomes) ==
    [i \in DOMAIN outcomes |->
        IF \E k \in 1..(i - 1) : outcomes[k] = "raise" THEN "cancelled"
        ELSE outcomes[i]]

\* asyncio.gather(*agent_tasks, return_exceptions=True): every task runs to its
\* end and the list holds, per task, its result or the exception it raised.
gather(outcomes) == outcomes

\* A result an agent returns itself: its class name, its checks on success,
\* checks [] when it caught an error.
OwnResult(agent_type, status) ==
    [agent_type |-> AgentClassName(agent_type), status |-> status,
     checks |-> IF status = "success" THEN "[checks]" ELSE "[]",
     verification_result |-> MISSING, reasoning |-> MISSING]

\* The row the workflow writes for a task that raised: the registry name of
\* the agent, status error, checks [].
error_result(agent_type) ==
    [agent_type |-> agent_type, status |-> "error", checks |-> "[]",
     verification_result |-> MISSING, reasoning |-> MISSING]

\* The orders in which the n tasks of a fan-out may finish (the positions of
\* the agent list, first finished first): the list order (s = 0), its
\* rotations and its reverse.
CompletionOrders(n) ==
    {[i \in 1..n |-> ((i + s - 1) % n) + 1] : s \in 0..(n - 1)}
        \cup {[i \in 1..n |-> n + 1 - i]}

\* The fan-out: all agents are created and awaited together, and the tasks
\* finish in the given order.  tasks keeps what each task ended with and
\* completed the order in which they finished (bookkeeping for the
\* properties); the list gather returns is in the order of the tasks.
GatherAs(j, outcomes, order) ==
    /\ run[j].pc = "gather"
    /\ DOMAIN outcomes = 1..Len(AgentTypes(j))
    /\ SetRun(j, [run[j] EXCEPT !.pc = "store_results", !.i = 1,
                                !.tasks = outcomes,
                                !.completed = order,
                                !.agent_results = gather(outcomes)])
    /\ UNCHANGED << verifications, verification_data, verification_results,
                    ubo_verifications, jobs, api, components >>

\* The fan-out whose tasks finish in list order.
Gather(j, outcomes) == GatherAs(j, outcomes, [i \in DOMAIN outcomes |-> i])

\* `for i, result in enumerate(agent_results)`: one store_agent_result per
\* entry, in list order.
StoreResults(j) ==
    /\ run[j].pc = "store_results"
    /\ LET i == run[j].i
           agent_type == AgentTypes(j)[i]
           result == IF run[j].agent_results[i] = "raise"
                     THEN error_result(agent_type)
                     ELSE OwnResult(agent_type, run[j].agent_results[i])
       IN /\ verifications' = store_agent_result_status(verifications, Vid(j), result)
          /\ verification_results' = store_agent_result_row(verification_results,
                                         Vid(j), result, By(j))
          /\ SetRun(j, [run[j] EXCEPT
                 !.i = i + 1,
                 !.pc = IF i < Len(run[j].agent_results) THEN "store_results"
                        ELSE IF Function(j) = "run_business_verification" THEN "join"
                        ELSE "compile_run"])
    /\ UNCHANGED << verification_data, ubo_verifications, jobs, api, components >>

\* --------------------------------------------------------------------- join
timeout_seconds == timeout_minutes * 60

Terminal(v) == v \in DOMAIN verifications
               /\ verifications[v].status \in {"completed", "failed"}

\* The poll counts only children that are completed, not the failed ones.
completed_count_OnlyCompleted(ids) ==
    Cardinality({n \in DOMAIN ids : ids[n] \in DOMAIN verifications
                                    /\ verifications[ids[n]].status = "completed"})

completed_count(ids) == Cardinality({n \in DOMAIN ids : Terminal(ids[n])})

\* _wait_for_ubo_verifications, one iteration of the loop: return when every
\* child is completed or failed, else sleep check_interval.
WaitPoll(j) ==
    /\ run[j].pc = "join"
    /\ run[j].elapsed_time < timeout_seconds
    /\ IF completed_count(run[j].ubo_verification_ids) = Len(run[j].ubo_verification_ids)
       THEN SetRun(j, [run[j] EXCEPT !.pc = "compile_run"])
       ELSE SetRun(j, [run[j] EXCEPT !.elapsed_time = @ + check_interval])
    /\ UNCHANGED << verifications, verification_data, verification_results,
                    ubo_verifications, jobs, api, components >>

\* A join whose timeout fails the parent instead of going on to compilation.
WaitTimeout_FailsParent(j) ==
    /\ run[j].pc = "join"
    /\ run[j].elapsed_time >= timeout_seconds
    /\ verifications' = update_verification_status(verifications, Vid(j), "failed",
                                                   "failed", "UBO verifications timed out")
    /\ SetRun(j, [run[j] EXCEPT !.pc = "returned", !.ret = "failed"])
    /\ UNCHANGED << verification_data, verification_results, ubo_verifications,
                    jobs, api, components >>

\* _wait_for_ubo_verifications: the loop ends on the timeout.
WaitTimeout(j) ==
    /\ run[j].pc = "join"
    /\ run[j].elapsed_time >= timeout_seconds
    /\ SetRun(j, [run[j] EXCEPT !.pc = "compile_run"])
    /\ UNCHANGED << verifications, verification_data, verification_results,
                    ubo_verifications, jobs, api, components >>

\* -------------------------------------------------------------- compilation
\* What the LLM call of a compilation agent ends with: an exception
\* (extract_data_with_llm raises AgentExecutionError), or an object whose
\* verification_result and reasoning are a string, null or missing.
AllLLMOutputs == [raised : BOOLEAN,
                  verification_result : {"passed", "failed", "other", "", None, MISSING},
                  reasoning : {"llm reasoning", "", None, MISSING}]
\* The outputs the lifecycle specification draws from.
LLMOutputs ==
    { [raised |-> FALSE, verification_result |-> "passed", reasoning |-> "llm reasoning"],
      [raised |-> FALSE, verification_result |-> "", reasoning |-> ""],
      [raised |-> TRUE, verification_result |-> MISSING, reasoning |-> MISSING] }

CompilationResult(agent_type, status, verification_result, reasoning) ==
    [agent_type |-> agent_type, status |-> status, checks |-> None,
     verification_result |-> verification_result, reasoning |-> reasoning]

\* The tail both compilation agents share: the LLM call, the two .get()
\* defaults, and the handler of `except Exception`.
LLMDetermination(agent_type, llm) ==
    IF llm.raised
    THEN CompilationResult(agent_type, "error", "failed", "Error during compilation")
    ELSE CompilationResult(agent_type, "success",
             Get(llm.verification_result, "failed"),
             Get(llm.reasoning, "Insufficient data to complete verification"))

HasError(rows) == \E n \in DOMAIN rows : rows[n].status = "error"

\* ResultCompilationAgent.run.
ResultCompilationRun(verification_id, llm) ==
    IF HasError(get_verification_agent_results(verification_results, verification_id))
    THEN CompilationResult("ResultCompilationAgent", "error", "failed",
             "Cannot complete verification due to errors in processing")
    ELSE LLMDetermination("ResultCompilationAgent", llm)

\* BusinessResultCompilationAgent.run, the loop over ubo_verification_ids:
\* ubo_final_result is the child's first ResultCompilationAgent row, and
\* reading its verification_result raises AttributeError (the
\* VerificationResult model has no such column), which run() catches.
UboFinalResultFound(ubo_verification_ids) ==
    \E n \in DOMAIN ubo_verification_ids :
        LET rows == get_verification_agent_results(verification_results,
                                                   ubo_verification_ids[n])
        IN \E m \in DOMAIN rows : rows[m].agent_type = "ResultCompilationAgent"

\* BusinessResultCompilationAgent.run.
BusinessResultCompilationRun(verification_id, ubo_verification_ids, llm) ==
    IF UboFinalResultFound(ubo_verification_ids)
    THEN CompilationResult("BusinessResultCompilationAgent", "error", "failed",
             "Error during compilation")
    ELSE IF HasError(get_verification_agent_results(verification_results, verification_id))
    THEN CompilationResult("BusinessResultCompilationAgent", "error", "failed",
             "Cannot complete business verification due to errors in processing")
    ELSE LLMDetermination("BusinessResultCompilationAgent", llm)

\* ResultCompilationAgent.run, its call of extract_data_with_llm: all rows of
\* the verification, unless one has status error (then the agent returns
\* before the call).
ResultCompilationCall(verification_id, llm) ==
    LET rows == get_verification_agent_results(verification_results, verification_id)
    IN IF HasError(rows) THEN NotCalled
       ELSE [called |-> TRUE, agent_results |-> rows, ubo_results |-> << >>,
             output |-> llm]

\* The entry BusinessResultCompilationAgent.run builds for a child without a
\* ResultCompilationAgent row: its current status, result and reasoning None.
UboResult(ubo_verification_id) ==
    [verification_id |-> ubo_verification_id,
     status |-> IF ubo_verification_id \in DOMAIN verifications
                THEN verifications[ubo_verification_id].status ELSE "unknown",
     result |-> None, reasoning |-> None]

\* BusinessResultCompilationAgent.run, its call of extract_data_with_llm: not
\* reached when building the entries raised or a business row has status error.
BusinessResultCompilationCall(verification_id, ubo_verification_ids, llm) ==
    LET rows == get_verification_agent_results(verification_results, verification_id)
    IN IF UboFinalResultFound(ubo_verification_ids) \/ HasError(rows) THEN NotCalled
       ELSE [called |-> TRUE, agent_results |-> rows,
             ubo_results |-> [n \in DOMAIN ubo_verification_ids |->
                                 UboResult(ubo_verification_ids[n])],
             output |-> llm]

\* Both workflows: the compilation agent is created and run.
CompileRun(j, llm) ==
    /\ run[j].pc = "compile_run"
    /\ SetRun(j, [run[j] EXCEPT
           !.pc = "store_final",
           !.final_result =
               IF Function(j) = "run_business_verification"
               THEN BusinessResultCompilationRun(Vid(j), run[j].ubo_verification_ids, llm)
               ELSE ResultCompilationRun(Vid(j), llm),
           !.llm_call =
               IF Function(j) = "run_business_verification"
               THEN BusinessResultCompilationCall(Vid(j), run[j].ubo_verification_ids, llm)
               ELSE ResultCompilationCall(Vid(j), llm)])
    /\ UNCHANGED << verifications, verification_data, verification_results,
                    ubo_verifications, jobs, api, components >>

\* store_agent_result(verification_id, final_result), first commit.
StoreFinalStatus(j) ==
    /\ run[j].pc = "store_final"
    /\ verifications' = store_agent_result_status(verifications, Vid(j),
                                                  run[j].final_result)
    /\ SetRun(j, [run[j] EXCEPT !.pc = "store_final_row"])
    /\ UNCHANGED << verification_data, verification_results, ubo_verifications,
                    jobs, api, components >>

\* store_agent_result(verification_id, final_result), second commit; a
\* single_agent run returns after it.
StoreFinalRow(j) ==
    /\ run[j].pc = "store_final_row"
    /\ verification_results' = store_agent_result_row(verification_results, Vid(j),
                                                      run[j].final_result, By(j))
    /\ SetRun(j, [run[j] EXCEPT
           !.pc = IF Function(j) = "run_agent_verification" THEN "returned"
                  ELSE "update_final",
           !.ret = IF Function(j) = "run_agent_verification"
                   THEN run[j].final_result.status ELSE @])
    /\ UNCHANGED << verifications, verification_data, ubo_verifications, jobs, api, components >>

\* Both workflows, last write: update_verification_status(status="completed",
\* result=final_result.get("verification_result", "failed"),
\* reason=final_result.get("reasoning", "")).
UpdateFinal(j) ==
    /\ run[j].pc = "update_final"
    /\ verifications' = update_verification_status(verifications, Vid(j), "completed",
           Get(run[j].final_result.verification_result, "failed"),
           Get(run[j].final_result.reasoning, ""))
    /\ SetRun(j, [run[j] EXCEPT !.pc = "returned", !.ret = "completed"])
    /\ UNCHANGED << verification_data, verification_results, ubo_verifications,
                    jobs, api, components >>

\* ------------------------------------------------------------- single agent
\* A queue client enqueues run_agent_verification(verification_id, agent_type, {}).
EnqueueAgentJob(verification_id, agent_type) ==
    /\ Len(jobs) < MaxJobs
    /\ Cardinality({j \in DOMAIN jobs : jobs[j].function = "run_agent_verification"})
          < MaxAgentJobs
    /\ jobs' = enqueue_job(jobs, "run_agent_verification", verification_id, None,
                           None, agent_type, "client", ByApi)
    /\ run' = Append(run, IdleRun)
    /\ UNCHANGED << verifications, verification_data, verification_results,
                    ubo_verifications, api, components >>

\* run_agent_verification: create_agent and `await agent.run()`.  An exception
\* leaving run() is caught by the function, which returns without storing.
AgentRun(j, outcome, llm) ==
    /\ run[j].pc = "agent_run"
    /\ LET agent_type == jobs[j].agent_type
           result ==
               CASE agent_type = "ResultCompilation" ->
                        ResultCompilationRun(Vid(j), llm)
                 [] agent_type = "BusinessResultCompilation" ->
                        BusinessResultCompilationRun(Vid(j), << >>, llm)
                 [] agent_type = "DataAcquisition" ->
                        DataAcquisitionResult("success")
                 [] OTHER -> OwnResult(agent_type,
                                 IF outcome = "raise" THEN "error" ELSE outcome)
           raised == agent_type \notin {"ResultCompilation", "BusinessResultCompilation",
                                        "DataAcquisition"} /\ outcome = "raise"
       IN SetRun(j, IF raised
                    THEN [run[j] EXCEPT !.pc = "returned", !.ret = "error"]
                    ELSE [run[j] EXCEPT !.pc = "store_final", !.final_result = result])
    /\ UNCHANGED << verifications, verification_data, verification_results,
                    ubo_verifications, jobs, api, components >>

\* -------------------------------------------------------------- job endings
\* The function has returned: Arq records the result and the job is complete.
Finish(j) ==
    /\ run[j].pc = "returned"
    /\ jobs' = [jobs EXCEPT ![j].status = "complete"]
    /\ SetRun(j, [IdleRun EXCEPT !.pc = "done", !.ret = run[j].ret,
                                 !.error = run[j].error])
    /\ UNCHANGED << verifications, verification_data, verification_results,
                    ubo_verifications, api, components >>

\* ------------------------------------------------------------ engine faults
\* The positions of a workflow run inside its try block at which the next
\* engine call (a status write, create_agent, a store, create_verification,
\* store_ubo_verifications, enqueue_job, get_verification) may raise.
EnginePcs == {"update_processing", "da_run", "da_store", "da_failed", "ubo_create",
              "ubo_link", "ubo_enqueue", "gather", "store_results", "join",
              "compile_run", "store_final", "store_final_row", "update_final"}

\* Submissions whose enqueue raised: start_*_verification re-raises as
\* VerificationError after the row was committed.
FailedSubmissions ==
    {v \in DOMAIN verifications :
        /\ verifications[v].by = ByApi
        /\ api.verification_id # v
        /\ \A j \in DOMAIN jobs : jobs[j].verification_id # v}

\* Engine calls that raised so far.
Faults ==
    Cardinality({j \in DOMAIN jobs : run[j].error # None})
        + Cardinality(FailedSubmissions)

\* The engine call the run is about to make raises; the call has no effect
\* (the Database methods roll back) and control goes to `except Exception as e`.
Raise(j) ==
    /\ Function(j) \in {"run_kyc_verification", "run_business_verification"}
    /\ run[j].pc \in EnginePcs
    /\ Faults < MaxFaults
    /\ SetRun(j, [run[j] EXCEPT !.pc = "handler", !.error = "boom"])
    /\ UNCHANGED << verifications, verification_data, verification_results,
                    ubo_verifications, jobs, api, components >>

\* reason=f"Workflow error: {str(e)}".
WorkflowError(e) == "Workflow error: " \o e

\* A handler that returns the failed outcome without writing the status.
Handler_NoWrite(j, ok) ==
    /\ run[j].pc = "handler"
    /\ SetRun(j, [run[j] EXCEPT !.pc = "returned", !.ret = "failed",
                                !.db_error = ~ok])
    /\ UNCHANGED << verifications, verification_data, verification_results,
                    ubo_verifications, jobs, api, components >>

\* The handler of both workflows: in a new session it writes failed /
\* "failed" / "Workflow error: <message>"; when that write raises too
\* (ok = FALSE) the error is logged only; then the function returns
\* {"status": "failed", "error": str(e)}.
Handler(j, ok) ==
    /\ run[j].pc = "handler"
    /\ verifications' =
           IF ok THEN update_verification_status(verifications, Vid(j), "failed",
                                                 "failed", WorkflowError(run[j].error))
           ELSE verifications
    /\ SetRun(j, [run[j] EXCEPT !.pc = "returned", !.ret = "failed",
                                !.db_error = ~ok])
    /\ UNCHANGED << verification_data, verification_results, ubo_verifications,
                    jobs, api, components >>

\* job_service.enqueue_*_verification raises: the submission fails with
\* VerificationError, the committed row stays.
StartEnqueueFails ==
    /\ api.pc \in {"kyc_enqueue", "business_enqueue"}
    /\ Faults < MaxFaults
    /\ api' = IdleApi
    /\ UNCHANGED << verifications, verification_data, verification_results,
                    ubo_verifications, jobs, run, components >>

RECURSIVE SumTries(_)
SumTries(n) == IF n = 0 THEN 0 ELSE jobs[n].tries + SumTries(n - 1)
\* Deliveries after the first, all jobs together.
Redeliveries ==
    SumTries(Len(jobs)) - Cardinality({j \in DOMAIN jobs : jobs[j].tries > 0})

\* The worker holding the job is lost at any point of the run (also after the
\* function returned and before the result is recorded): the run's locals are
\* gone, the queue delivers the job again.  Only the job of an API submission
\* is lost here; a child's job runs the same function as a submitted one.
Redeliver(j) ==
    /\ jobs[j].status = "in_progress"
    /\ jobs[j].origin = "api"
    /\ Redeliveries < MaxRedeliveries
    /\ jobs' = [jobs EXCEPT ![j].status = "queued",
                            ![j].finished = @ \/ run[j].pc = "returned"]
    /\ SetRun(j, IdleRun)
    /\ UNCHANGED << verifications, verification_data, verification_results,
                    ubo_verifications, api, components >>

\* --------------------------------------------------------------- inputs
OwnerLists == UNION { [1..n -> Users \cup {None}] : n \in 0..MaxOwners }

\* The external record stores an acquisition may meet.
Externals ==
    [inquiry : {"found", "absent", "fails"},
     record : {"found", "absent", "fails"},
     record_user_id : Users \cup {None},
     owners : OwnerLists,
     persist : BOOLEAN]

\* Fan-out outcome vectors in which only the first MaxBad agents may end
\* other than with success.
BoundedOutcomes(n) ==
    LET m == IF MaxBad < n THEN MaxBad ELSE n
    IN { [i \in 1..n |-> IF i <= m THEN f[i] ELSE "success"] : f \in [1..m -> Outcomes] }

\* The fan-out outcomes of the specification with redelivery: no task fails.
ReplayOutcomes(n) == { [i \in 1..n |-> "success"] }


\* The two submission operations of the API.
Submit ==
    \/ \E u \in Users, a \in AdditionalData : StartKycCreate(u, NoId, a)
    \/ StartStoreData
    \/ StartKycEnqueue
    \/ \E b \in Businesses, a \in AdditionalData : StartBusinessCreate(b, a)
    \/ StartBusinessEnqueue

\* start_kyc_verification called with a parent_verification_id.
SubmitLinked ==
    \/ \E u \in Users, p \in DOMAIN verifications, a \in AdditionalData :
          StartKycCreate(u, p, a)
    \/ StartKycLink

\* One step of the worker on job j; outcomes and llms are what the fan-out
\* tasks and the LLM call may end with.
Work(j, outcomes, llms) ==
    \/ Pickup(j)
    \/ UpdateProcessing(j)
    \/ /\ run[j].pc = "da_run"
       /\ \E ok \in BOOLEAN, owners \in OwnerLists : DataAcquisition(j, ok, owners)
    \/ StoreDataResult(j)
    \/ DataAcquisitionFailed(j)
    \/ UboCreate(j)
    \/ UboLink(j)
    \/ UboEnqueue(j)
    \/ /\ run[j].pc = "gather"
       /\ \E o \in outcomes : Gather(j, o)
    \/ StoreResults(j)
    \/ WaitPoll(j)
    \/ WaitTimeout(j)
    \/ /\ run[j].pc = "compile_run"
       /\ \E llm \in llms : CompileRun(j, llm)
    \/ StoreFinalStatus(j)
    \/ StoreFinalRow(j)
    \/ UpdateFinal(j)
    \/ Finish(j)

\* The lifecycle: submissions (also with a parent), workflows and children.
Next ==
    \/ Submit
    \/ SubmitLinked
    \/ \E j \in DOMAIN jobs :
          Work(j, BoundedOutcomes(Len(AgentTypes(j))), LLMOutputs)

Spec == Init /\ [][Next]_vars

\* The lifecycle with every output of the compilation LLM in the workflow of
\* the submitted verification, individual or business (a child's compilation
\* draws from LLMOutputs).
SpecVerdict ==
    /\ Init
    /\ [][
        \/ Submit
        \/ \E j \in DOMAIN jobs :
              Work(j, BoundedOutcomes(Len(AgentTypes(j))),
                   IF jobs[j].origin = "api" THEN AllLLMOutputs ELSE LLMOutputs)
       ]_vars

\* The lifecycle with at-least-once delivery: a job in progress may be
\* delivered again.
SpecRedelivery ==
    /\ Init
    /\ [][
        \/ Submit
        \/ SubmitLinked
        \/ \E j \in DOMAIN jobs :
              \/ Work(j, ReplayOutcomes(Len(AgentTypes(j))), LLMOutputs)
              \/ Redeliver(j)
       ]_vars

\* The lifecycle with single_agent jobs enqueued by a queue client.
SpecAgent ==
    /\ Init
    /\ [][
        \/ Submit
        \* The agents a single_agent job is enqueued for.
        \/ \E v \in DOMAIN verifications,
              t \in {"DataAcquisition", "InitialDiligence", "ResultCompilation",
                     "BusinessResultCompilation"} : EnqueueAgentJob(v, t)
        \/ \E j \in DOMAIN jobs :
              \/ Work(j, BoundedOutcomes(Len(AgentTypes(j))), LLMOutputs)
              \/ /\ run[j].pc = "agent_run"
                 /\ \E o \in Outcomes, llm \in LLMOutputs : AgentRun(j, o, llm)
       ]_vars

\* One workflow without owners, in which every subset of the fan-out agents
\* may raise.
SpecFanout ==
    /\ Init
    /\ [][
        \/ Submit
        \/ \E j \in DOMAIN jobs :
              \/ Pickup(j)
              \/ UpdateProcessing(j)
              \/ /\ run[j].pc = "da_run"
                 /\ DataAcquisition(j, TRUE, << >>)
              \/ StoreDataResult(j)
              \/ /\ run[j].pc = "gather"
                 /\ \E o \in [1..Len(AgentTypes(j)) -> {"success", "raise"}] : Gather(j, o)
              \/ StoreResults(j)
              \/ WaitPoll(j)
              \/ /\ run[j].pc = "compile_run"
                 /\ \E llm \in LLMOutputs : CompileRun(j, llm)
              \/ StoreFinalStatus(j)
              \/ StoreFinalRow(j)
              \/ UpdateFinal(j)
              \/ Finish(j)
       ]_vars

\* The lifecycle without submissions with a parent, and with the business
\* run scheduled fairly: the worker that holds the job resumes its coroutine
\* after every await.  The children's jobs get no fairness.
BusinessStep(j) ==
    /\ j \in DOMAIN jobs
    /\ Function(j) = "run_business_verification"
    /\ Work(j, BoundedOutcomes(Len(AgentTypes(j))), LLMOutputs)

SpecJoin ==
    /\ Init
    /\ [][
        \/ Submit
        \/ \E j \in DOMAIN jobs :
              Work(j, BoundedOutcomes(Len(AgentTypes(j))), LLMOutputs)
       ]_vars
    /\ \A j \in 1..MaxJobs : WF_vars(BusinessStep(j))

\* The lifecycle in which engine calls may raise.
SpecFault ==
    /\ Init
    /\ [][
        \/ Submit
        \/ StartEnqueueFails
        \/ \E j \in DOMAIN jobs :
              \/ Work(j, ReplayOutcomes(Len(AgentTypes(j))), LLMOutputs)
              \/ Raise(j)
              \/ /\ run[j].pc = "handler"
                 /\ \E ok \in BOOLEAN : Handler(j, ok)
       ]_vars

\* The lifecycle with the acquisition agent run against the external record
\* store.
SpecAcquisition ==
    /\ Init
    /\ [][
        \/ Submit
        \/ \E j \in DOMAIN jobs :
              \/ Pickup(j)
              \/ UpdateProcessing(j)
              \/ /\ run[j].pc = "da_run"
                 /\ \E ext \in Externals : DataAcquisitionRun(j, ext)
              \/ StoreDataResult(j)
              \/ DataAcquisitionFailed(j)
              \/ /\ run[j].pc = "gather"
                 /\ \E o \in ReplayOutcomes(Len(AgentTypes(j))) : Gather(j, o)
              \/ StoreResults(j)
              \/ WaitPoll(j)
              \/ /\ run[j].pc = "compile_run"
                 /\ \E llm \in LLMOutputs : CompileRun(j, llm)
              \/ StoreFinalStatus(j)
              \/ StoreFinalRow(j)
              \/ UpdateFinal(j)
              \/ Finish(j)
       ]_vars


\* ------------------------------------------------------------ LLM traffic
\* The tasks of the worker process that are at an LLM call or waiting for one.
LlmTasks ==
    llm_calls.waiters + llm_calls.extract_data_with_llm + llm_calls.classify_document
    + llm_calls.classified + llm_calls.extract_text_from_image

\* The LLM invocations in flight.
InFlight ==
    llm_calls.extract_data_with_llm + llm_calls.classify_document + llm_calls.extract_text_from_image

\* BaseAgent.extract_data_with_llm enters connection_pool.get_client: the
\* semaphore is taken when its value is positive and the call to
\* extract_structured_data starts; otherwise the task waits in acquire().
GetClientEnter ==
    /\ LlmTasks < MaxLlmTasks
    /\ llm_calls' = IF llm_calls.semaphore > 0
              THEN [llm_calls EXCEPT !.semaphore = @ - 1, !.extract_data_with_llm = @ + 1]
              ELSE [llm_calls EXCEPT !.waiters = @ + 1]
    /\ UNCHANGED << engine, external_db, reads, call >>

\* A task waiting in acquire() is woken after a release and takes the
\* semaphore.
GetClientWake ==
    /\ llm_calls.waiters > 0
    /\ llm_calls.semaphore > 0
    /\ llm_calls' = [llm_calls EXCEPT !.waiters = @ - 1, !.semaphore = @ - 1,
                          !.extract_data_with_llm = @ + 1]
    /\ UNCHANGED << engine, external_db, reads, call >>

\* extract_structured_data returns or raises: get_client releases the
\* semaphore.
GetClientExit ==
    /\ llm_calls.extract_data_with_llm > 0
    /\ llm_calls' = [llm_calls EXCEPT !.extract_data_with_llm = @ - 1, !.semaphore = @ + 1]
    /\ UNCHANGED << engine, external_db, reads, call >>

\* OCRProcessor.classify_document, called by process_document for a document
\* of EinLetterAgent or ArticlesIncorporationAgent: invoke_model on the
\* client of bedrock_client._get_client().
ClassifyDocument ==
    /\ LlmTasks < MaxLlmTasks
    /\ llm_calls' = [llm_calls EXCEPT !.classify_document = @ + 1]
    /\ UNCHANGED << engine, external_db, reads, call >>

\* The classification call returns.
ClassifyDocumentReturn ==
    /\ llm_calls.classify_document > 0
    /\ llm_calls' = [llm_calls EXCEPT !.classify_document = @ - 1, !.classified = @ + 1]
    /\ UNCHANGED << engine, external_db, reads, call >>

\* OCRProcessor.extract_text_from_image, the second call of process_document.
ExtractTextFromImage ==
    /\ llm_calls.classified > 0
    /\ llm_calls' = [llm_calls EXCEPT !.classified = @ - 1, !.extract_text_from_image = @ + 1]
    /\ UNCHANGED << engine, external_db, reads, call >>

\* The extraction call returns.
ExtractTextFromImageReturn ==
    /\ llm_calls.extract_text_from_image > 0
    /\ llm_calls' = [llm_calls EXCEPT !.extract_text_from_image = @ - 1]
    /\ UNCHANGED << engine, external_db, reads, call >>

SpecLlm ==
    /\ Init
    /\ [][
        \/ GetClientEnter
        \/ GetClientWake
        \/ GetClientExit
        \/ ClassifyDocument
        \/ ClassifyDocumentReturn
        \/ ExtractTextFromImage
        \/ ExtractTextFromImageReturn
       ]_vars


\* ------------------------------------------------- external record store
\* The four reads.
ReadMethods == {"get_persona_inquiry_id", "get_sift_scores", "get_business_data",
                "get_business_owners"}

\* What a call on the pool, a connection or a cursor may end with: no
\* exception, an operational error, another exception.
Exceptions == {None, "OperationalError", "Error"}

\* `isinstance(e, aiomysql.OperationalError) or "pool" in str(e).lower()`.
ResetsPool(e) == e = "OperationalError"

\* The mock record get_business_data returns after its last attempt.
MockRecord == "mock"

SetRead(t, r) == reads' = [reads EXCEPT ![t] = r]

\* `self.pool = None` at the given source line by task t.  The connections
\* other tasks hold at that moment (between acquire and release) are from
\* the pool that is given up: stale.
ResetPool(db, t, line) ==
    [db EXCEPT !.pool = None,
               !.pool_writes = @ \cup {[line |-> line, locked |-> db.connection_lock = t]},
               !.stale = IF db.pool = None THEN @
                         ELSE @ \cup {u \in DOMAIN reads :
                                         reads[u].pc \in {"execute", "release"}}]

\* A task calls one of the four reads.
CallRead(t, method) ==
    /\ reads[t].pc = "idle"
    /\ SetRead(t, [IdleRead EXCEPT !.read = method,
                                   !.query = IF method = "get_business_owners"
                                             THEN "get_business_data" ELSE method,
                                   !.pc = "get_connection"])
    /\ UNCHANGED << engine, llm_calls, external_db, call >>

\* The statement after get_business_data returned business_data inside
\* get_business_owners: no record, [] is returned; otherwise (a row or the
\* mock record, both with an id) the owner query starts.
AfterBusinessData(r, business_data, failed) ==
    IF r.read = "get_business_owners"
    THEN IF business_data = None
         THEN [r EXCEPT !.pc = "returned", !.result = "[]", !.failed = failed]
         ELSE [r EXCEPT !.query = "get_business_owners", !.pc = "get_connection",
                        !.attempt = 0, !.error = None]
    ELSE [r EXCEPT !.pc = "returned", !.result = business_data, !.failed = failed]

\* The except branch a read enters with exception e; discarded tells whether
\* the pool was set to None on the way.  get_business_data sleeps when
\* another attempt is left and returns the mock record otherwise; the other
\* three return None or [] at once.
Except(r, e, discarded) ==
    LET k == IF ResetsPool(e) /\ ~discarded THEN 1 ELSE 0
    IN  IF r.query = "get_business_data"
        THEN IF r.attempt < max_retries - 1
             THEN [r EXCEPT !.pc = "sleep", !.error = e]
             ELSE AfterBusinessData([r EXCEPT !.kept = @ + k, !.error = e], MockRecord, TRUE)
        ELSE [r EXCEPT !.pc = "returned", !.error = e, !.kept = @ + k, !.failed = TRUE,
                       !.result = IF r.query = "get_business_owners"
                                  THEN "[]" ELSE None]

\* get_connection up to its first await: the lock is taken; when
\* is_connecting is set the task sleeps and calls get_connection again while
\* it holds the lock; when there is no pool it starts create_pool under the
\* lock; otherwise it leaves the lock and asks the pool for a connection.
GetConnection(t) ==
    /\ reads[t].pc = "get_connection"
    /\ external_db.connection_lock = 0
    /\ IF external_db.is_connecting
       THEN /\ external_db' = [external_db EXCEPT !.connection_lock = t]
            /\ SetRead(t, [reads[t] EXCEPT !.pc = "get_connection_again"])
       ELSE IF external_db.pool = None
       THEN /\ external_db' = [external_db EXCEPT !.connection_lock = t,
                                                  !.is_connecting = TRUE]
            /\ SetRead(t, [reads[t] EXCEPT !.pc = "create_pool"])
       ELSE /\ external_db' = external_db
            /\ SetRead(t, [reads[t] EXCEPT !.pc = "acquire"])
    /\ UNCHANGED << engine, llm_calls, call >>

\* create_pool without the finally clause: an exception leaves is_connecting
\* set.
CreatePool_NoFinally(t, e) ==
    /\ reads[t].pc = "create_pool"
    /\ IF e = None
       THEN /\ external_db' = [external_db EXCEPT !.pool = "pool", !.is_connecting = FALSE,
                                                  !.connection_lock = 0]
            /\ SetRead(t, [reads[t] EXCEPT !.pc = "acquire"])
       ELSE /\ external_db' = [ResetPool(external_db, t, 55) EXCEPT !.connection_lock = 0]
            /\ SetRead(t, Except(reads[t], e, TRUE))
    /\ UNCHANGED << engine, llm_calls, call >>

\* aiomysql.create_pool returns or raises: is_connecting is cleared and the
\* lock left; on an exception the pool is set to None (line 55) and the
\* exception reaches the read's except branch.
CreatePool(t, e) ==
    /\ reads[t].pc = "create_pool"
    /\ IF e = None
       THEN /\ external_db' = [external_db EXCEPT !.pool = "pool", !.is_connecting = FALSE,
                                                  !.connection_lock = 0]
            /\ SetRead(t, [reads[t] EXCEPT !.pc = "acquire"])
       ELSE /\ external_db' = [ResetPool(external_db, t, 55) EXCEPT
                                  !.is_connecting = FALSE, !.connection_lock = 0]
            /\ SetRead(t, Except(reads[t], e, TRUE))
    /\ UNCHANGED << engine, llm_calls, call >>

\* pool.acquire() returns a connection or raises; on an exception the pool is
\* set to None (line 66), after the lock was left.  When another task has set
\* the pool to None since the lock was left, `self.pool.acquire` raises
\* AttributeError.
Acquire(t, e) ==
    /\ reads[t].pc = "acquire"
    /\ external_db.pool = None => e = "Error"
    /\ IF e = None
       THEN /\ external_db' = external_db
            /\ SetRead(t, [reads[t] EXCEPT !.pc = "execute"])
       ELSE /\ external_db' = ResetPool(external_db, t, 66)
            /\ SetRead(t, Except(reads[t], e, TRUE))
    /\ UNCHANGED << engine, llm_calls, call >>

\* cursor.execute and fetch: a row, no row, or an exception.  In
\* get_business_data the connection is released in a finally clause, in the
\* other reads only after a successful query: an exception takes them to
\* the except branch with the connection in hand.
Execute(t, row, e) ==
    /\ reads[t].pc = "execute"
    /\ IF e = None
       THEN /\ SetRead(t, [reads[t] EXCEPT !.pc = "release", !.result = row])
            /\ external_db' = external_db
       ELSE IF reads[t].query = "get_business_data"
       THEN /\ SetRead(t, [reads[t] EXCEPT !.pc = "release", !.error = e])
            /\ external_db' = external_db
       ELSE /\ SetRead(t, [Except(reads[t], e, FALSE) EXCEPT !.fate = "dropped"])
            /\ external_db' = [external_db EXCEPT !.stale = @ \ {t}]
    /\ UNCHANGED << engine, llm_calls, call >>

\* release_connection: nothing when there is no pool, pool.release(conn)
\* otherwise, which may raise.  Then the read returns what it fetched, or its
\* except branch is entered with the exception in hand.
Release(t, e) ==
    /\ reads[t].pc = "release"
    /\ e # None => external_db.pool # None
    /\ external_db' = [external_db EXCEPT !.stale = @ \ {t}]
    /\ LET r == [reads[t] EXCEPT !.fate = IF external_db.pool = None THEN "dropped"
                                          ELSE IF t \in external_db.stale
                                          THEN "released into another pool"
                                          ELSE "released"]
           pending == IF e # None THEN e ELSE r.error
       IN SetRead(t, IF pending # None
                     THEN Except(r, pending, FALSE)
                     ELSE IF r.query = "get_business_data"
                     THEN AfterBusinessData(r, r.result, FALSE)
                     ELSE [r EXCEPT !.pc = "returned",
                                    !.result = IF r.query = "get_business_owners" /\ r.result = None
                                               THEN "[]" ELSE r.result])
    /\ UNCHANGED << engine, llm_calls, call >>

\* get_business_data after its asyncio.sleep(retry_delay * 2 ** attempt): the
\* pool is set to None (line 159) when the exception was an operational
\* error, and the next attempt starts.
Sleep(t) ==
    /\ reads[t].pc = "sleep"
    /\ LET r == reads[t]
       IN /\ external_db' = IF ResetsPool(r.error) THEN ResetPool(external_db, t, 159)
                            ELSE external_db
          /\ SetRead(t, [r EXCEPT !.pc = "get_connection", !.attempt = @ + 1,
                                  !.error = None, !.result = None, !.fate = None,
                                  !.sleeps = Append(@, retry_delay * 2 ^ r.attempt)])
    /\ UNCHANGED << engine, llm_calls, call >>

\* The caller takes the returned value; the task is free for another read.
ReturnRead(t) ==
    /\ reads[t].pc = "returned"
    /\ SetRead(t, IdleRead)
    /\ UNCHANGED << engine, llm_calls, external_db, call >>

SpecExternal ==
    /\ Init
    /\ [][
        \E t \in 1..MaxDbTasks :
            \/ \E method \in ReadMethods : CallRead(t, method)
            \/ GetConnection(t)
            \/ \E e \in Exceptions : CreatePool(t, e)
            \/ \E e \in Exceptions : Acquire(t, e)
            \/ \E row \in {"row", None}, e \in Exceptions : Execute(t, row, e)
            \/ \E e \in Exceptions : Release(t, e)
            \/ Sleep(t)
            \/ ReturnRead(t)
       ]_vars

\* Concurrent callers of get_connection where only the creation of the pool
\* fails and no query does; pool.acquire() raises only for a pool that is
\* gone.  A connection that is not released is lost together with its pool
\* (line 159), so the pool in use (maxsize 20) has a free connection for each
\* of the MaxDbTasks callers.
\* The scheduling is asyncio's: connection_lock wakes its waiters in turn, so
\* a task that keeps asking for the lock gets it; create_pool returns or
\* raises (connect_timeout); pool.acquire() returns.
SpecGetConnection ==
    /\ Init
    /\ [][
        \E t \in 1..MaxDbTasks :
            \/ \E method \in ReadMethods : CallRead(t, method)
            \/ GetConnection(t)
            \/ \E e \in Exceptions : CreatePool(t, e)
            \/ Acquire(t, IF external_db.pool = None THEN "Error" ELSE None)
            \/ \E row \in {"row", None} : Execute(t, row, None)
            \/ \E e \in Exceptions : Release(t, e)
            \/ Sleep(t)
            \/ ReturnRead(t)
       ]_vars
    /\ \A t \in 1..MaxDbTasks :
          /\ SF_vars(GetConnection(t))
          /\ WF_vars(\E e \in Exceptions : CreatePool(t, e))
          /\ WF_vars(\E e \in Exceptions : Acquire(t, e))


\* The workflows with every completion order of CompletionOrders in the
\* fan-out.
SpecCompletion ==
    /\ Init
    /\ [][
        \/ Submit
        \/ \E j \in DOMAIN jobs :
              \/ Pickup(j)
              \/ UpdateProcessing(j)
              \/ /\ run[j].pc = "da_run"
                 /\ DataAcquisition(j, TRUE, << >>)
              \/ StoreDataResult(j)
              \/ /\ run[j].pc = "gather"
                 /\ \E o \in BoundedOutcomes(Len(AgentTypes(j))),
                       order \in CompletionOrders(Len(AgentTypes(j))) : GatherAs(j, o, order)
              \/ StoreResults(j)
              \/ WaitPoll(j)
              \/ /\ run[j].pc = "compile_run"
                 /\ \E llm \in LLMOutputs : CompileRun(j, llm)
              \/ StoreFinalStatus(j)
              \/ StoreFinalRow(j)
              \/ UpdateFinal(j)
              \/ Finish(j)
       ]_vars


\* ------------------------------------------------------------ agent run()
\* Every agent class: the base agent, the acquisition agent, the catalog
\* agents and the two compilation agents, by registry name.
AgentClasses ==
    {"BaseAgent", "DataAcquisition", "ResultCompilation", "BusinessResultCompilation"}
        \cup {kyc_agent_types[i] : i \in DOMAIN kyc_agent_types}
        \cup {kyb_agent_types[i] : i \in DOMAIN kyb_agent_types}

\* run() of each agent class, e being the exception raised inside its try
\* block (None: none).  BaseAgent.run raises NotImplementedError itself and
\* catches it; every run() returns the dict of its `except Exception` branch:
\* with "checks": [] in the base and the catalog agents, with "data": {} and
\* no checks in the acquisition agent, with verification_result "failed" and
\* no checks in the compilation agents.
agent_run(agent_type, e) ==
    CASE agent_type = "BaseAgent" -> OwnResult(agent_type, "error")
      [] agent_type = "DataAcquisition" ->
            DataAcquisitionResult(IF e = None THEN "success" ELSE "error")
      [] agent_type \in {"ResultCompilation", "BusinessResultCompilation"} ->
            LLMDetermination(AgentClassName(agent_type),
                [raised |-> e # None, verification_result |-> "passed",
                 reasoning |-> "reasoning"])
      [] OTHER -> OwnResult(agent_type, IF e = None THEN "success" ELSE "error")

\* The caller awaits agent.run().
RunAgent ==
    /\ call.fn = "run"
    /\ call.pc = "called"
    /\ call' = [call EXCEPT !.pc = "returned",
                            !.result = agent_run(call.args.agent_type, call.args.e)]
    /\ UNCHANGED << engine, llm_calls, external_db, reads >>

\* Every agent class with everything that may fail inside its run():
\* nothing, a store read or write, a provider call, the LLM call.
InitRun ==
    /\ InitState
    /\ call \in [fn : {"run"}, pc : {"called"}, result : {None},
                 args : [agent_type : AgentClasses,
                         e : {None, "store", "provider", "LLM"}]]

SpecRun == InitRun /\ [][RunAgent]_vars


\* ------------------------------------------------------ the verify endpoints
\* The api_keys row an api-key header names: whether there is one, its
\* is_active flag, and whether its expires_at is in the past.
ApiKeyRows == [found : BOOLEAN, is_active : BOOLEAN, expired : BOOLEAN]

\* APIKeyService.validate_api_key.
validate_api_key(row) == row.found /\ row.is_active /\ ~row.expired

\* The JSON bodies: the id field (user_id or business_id) missing, empty or
\* an id; additional_data missing, null, an array, the empty object or an
\* object with a parent_business_id.
Bodies(ids) ==
    [id : {MISSING, ""} \cup ids,
     additional_data : {MISSING, "null", "[array]", "{}"} \cup Businesses]

\* KycVerificationRequest / BusinessVerificationRequest: the id is a required
\* str; additional_data is an Optional[Dict] that defaults to {}.
ParseRequest(body) ==
    [error |-> body.id = MISSING \/ body.additional_data = "[array]",
     id |-> body.id,
     additional_data |-> IF body.additional_data = MISSING THEN "{}"
                         ELSE body.additional_data]

\* validate_verification_request on request.dict(): False when it raises
\* DataValidationError (no id, or additional_data not a dict).
validate_verification_request_NoIdCheck(data) == data.additional_data # "null"
validate_verification_request(data) ==
    /\ Truthy(data.id)
    /\ data.additional_data # "null"

\* A request arrives at POST /api/verify/kyc or /api/verify/business.  before
\* is the number of Verification rows at that time.
PostVerify(request) ==
    /\ call.pc = "idle"
    /\ call' = [fn |-> "POST /api/verify/" \o request.kind, pc |-> "called",
                args |-> request, result |-> None, before |-> Len(verifications)]
    /\ UNCHANGED << engine, llm_calls, external_db, reads >>

\* The dependency get_api_key: HTTPException 401 unless the key validates.
GetApiKey ==
    /\ call.pc = "called"
    /\ call' = IF validate_api_key(call.args.api_key)
               THEN [call EXCEPT !.pc = "authenticated"]
               ELSE [call EXCEPT !.pc = "responded", !.result = 401]
    /\ UNCHANGED << engine, llm_calls, external_db, reads >>

\* The body is validated against the schema (422 from the framework), then
\* the handler calls validate_verification_request (DataValidationError,
\* answered 422).
ValidateRequest ==
    /\ call.pc = "authenticated"
    /\ LET request == ParseRequest(call.args.body)
       IN call' = IF request.error \/ ~validate_verification_request(request)
                  THEN [call EXCEPT !.pc = "responded", !.result = 422]
                  ELSE [call EXCEPT !.pc = "start"]
    /\ UNCHANGED << engine, llm_calls, external_db, reads >>

\* The handler calls start_kyc_verification or start_business_verification
\* with the id and the additional_data of the request.
StartAccepted ==
    /\ call.pc = "start"
    /\ Len(verifications) = call.before
    /\ LET request == ParseRequest(call.args.body)
           additional_data == IF request.additional_data = "{}" THEN None
                              ELSE request.additional_data
       IN IF call.args.kind = "kyc"
          THEN StartKycCreate(request.id, NoId, additional_data)
          ELSE StartBusinessCreate(request.id, additional_data)

\* The start operation has returned: the handler answers 200.
Respond ==
    /\ call.pc = "start"
    /\ Len(verifications) > call.before
    /\ api.pc = "idle"
    /\ call' = [call EXCEPT !.pc = "responded", !.result = 200]
    /\ UNCHANGED << engine, llm_calls, external_db, reads >>

\* The response is sent.
SendResponse ==
    /\ call.pc = "responded"
    /\ call' = NoCall
    /\ UNCHANGED << engine, llm_calls, external_db, reads >>

SpecApi ==
    /\ Init
    /\ [][
        \/ \E request \in [kind : {"kyc"}, api_key : ApiKeyRows, body : Bodies(Users)]
                          \cup [kind : {"business"}, api_key : ApiKeyRows,
                                body : Bodies(Businesses)] : PostVerify(request)
        \/ GetApiKey
        \/ ValidateRequest
        \/ StartAccepted
        \/ StartStoreData
        \/ StartKycEnqueue
        \/ StartBusinessEnqueue
        \/ Respond
        \/ SendResponse
       ]_vars


\* ------------------------------------------------------- the job-status route
\* JobService.get_job_status: get_redis, Job(job_id, redis), job.status(),
\* job.result() and the reads of the job's attributes, each of which may
\* raise (args.e names the one that does; job.result() also raises what a
\* failed job raised).  `except Exception` turns every exception into None;
\* otherwise a dict is returned, given here by its "status" entry.
JobServiceGetJobStatus ==
    /\ call.fn = "get_job_status"
    /\ call.pc = "called"
    /\ call' = [call EXCEPT !.pc = "looked_up",
                            !.result.status = IF call.args.e # None THEN None
                                              ELSE call.args.job]
    /\ UNCHANGED << engine, llm_calls, external_db, reads >>

\* The route after the await: a truthy status is returned (200); otherwise
\* HTTPException(404) is raised inside the try block, where `except
\* Exception` catches it and raises HTTPException(500).
GetJobStatus ==
    /\ call.fn = "get_job_status"
    /\ call.pc = "looked_up"
    /\ LET raised == IF call.result.status # None THEN << >>
                      ELSE << [status_code |-> 404, detail |-> "Job not found"] >>
           \* HTTPException is an Exception: whatever the try block raises is
           \* replaced.
           answer == IF raised = << >> THEN [status_code |-> 200, detail |-> None]
                     ELSE [status_code |-> 500, detail |-> "Error getting job status"]
       IN call' = [call EXCEPT !.pc = "answered",
                               !.result.status_code = answer.status_code,
                               !.result.detail = answer.detail]
    /\ UNCHANGED << engine, llm_calls, external_db, reads >>

\* A request for a job id; the job's state in Redis as arq names it, and the
\* step of the lookup that raises, if any.
InitJobStatus ==
    /\ InitState
    /\ call \in [fn : {"get_job_status"}, pc : {"called"},
                 args : [job_id : {"j1", "j2", "j3"},
                         job : {"deferred", "queued", "in_progress", "complete",
                                "not_found"},
                         e : {None, "get_redis", "status", "result", "attribute"}],
                 result : {[status |-> None, status_code |-> 0, detail |-> None]}]

SpecJobStatus ==
    /\ InitJobStatus
    /\ [][
        \/ JobServiceGetJobStatus
        \/ GetJobStatus
       ]_vars

\* ------------------------------------------------ extract_structured_data
\* The texts the model may return, as token sequences: an opening brace, a
\* closing brace, a "key": value member, a fence mark, prose.
Texts ==
    UNION {[1..n -> {"{", "}", "member", "fence", "prose"}] : n \in 0..MaxTextLen}

\* json.loads on a text that starts with an opening brace: the object, or
\* JSONDecodeError.
json_loads(json_str) ==
    IF json_str \in {<< "{", "}" >>, << "{", "member", "}" >>}
    THEN [error |-> None, value |-> json_str]
    ELSE [error |-> "JSONDecodeError", value |-> << >>]

\* BedrockClient.extract_structured_data on the generation the model
\* returned: the text from the first opening brace (str.find, -1 when there is
\* none) to the last closing brace (str.rfind + 1) is parsed; without such a
\* text the payload is {"raw_response": generation}; when json.loads raises,
\* {"raw_response": generation, "parse_error": str(e)}.  parsed tells that the
\* payload is the parsed object (of the text given), keys the keys of a
\* payload built by the function.
extract_structured_data(generation) ==
    LET opening == {i \in DOMAIN generation : generation[i] = "{"}
        closing == {i \in DOMAIN generation : generation[i] = "}"}
        json_start == IF opening = {} THEN -1
                      ELSE (CHOOSE i \in opening : \A k \in opening : i <= k) - 1
        json_end == IF closing = {} THEN 0
                    ELSE CHOOSE i \in closing : \A k \in closing : i >= k
        loaded == json_loads(SubSeq(generation, json_start + 1, json_end))
    IN  IF json_start # -1 /\ json_end > json_start
        THEN IF loaded.error = None
             THEN [raised |-> FALSE, parsed |-> TRUE, keys |-> {}, text |-> loaded.value]
             ELSE [raised |-> FALSE, parsed |-> FALSE,
                   keys |-> {"raw_response", "parse_error"}, text |-> generation]
        ELSE [raised |-> FALSE, parsed |-> FALSE,
              keys |-> {"raw_response"}, text |-> generation]

\* The call returns.
ExtractStructuredData ==
    /\ call.fn = "extract_structured_data"
    /\ call.pc = "called"
    /\ call' = [call EXCEPT !.pc = "returned",
                            !.result = extract_structured_data(call.args)]
    /\ UNCHANGED << engine, llm_calls, external_db, reads >>

\* Every text of Texts as the generation of one call.
InitExtract ==
    /\ InitState
    /\ call \in [fn : {"extract_structured_data"}, pc : {"called"},
                 args : Texts, result : {None}]

SpecExtract == InitExtract /\ [][ExtractStructuredData]_vars


\* --------------------------------------------------------- stored payloads
\* A Python value is a record with one field, named after its type: a str
\* holds the sequence of its characters, a date << year, month, day >>, a
\* datetime << year, month, day, hour, minute, second, microsecond >> (naive),
\* a list the sequence of its items and a dict the sequence of its items as
\* records of a key k and a value v.
\* Payloads(d): the values nested at most d deep, lists of at most two items
\* and dicts of at most one.
RECURSIVE Payloads(_)
Payloads(d) ==
    IF d = 0
    THEN {[NoneType |-> 0],
          [str |-> << "a" >>],
          [int |-> 7],
          [date |-> << 2024, 1, 5 >>],
          [datetime |-> << 1999, 12, 31, 23, 59, 58, 0 >>],
          [datetime |-> << 2024, 1, 5, 0, 0, 9, 250 >>]}
    ELSE LET below == Payloads(d - 1)
         IN  below
             \cup {[list |-> s] : s \in UNION {[1..n -> below] : n \in 0..2}}
             \cup {[dict |-> s] :
                      s \in UNION {[1..n -> [k : {"dob"}, v : below]] : n \in 0..1}}

\* date.isoformat() and datetime.isoformat(): YYYY-MM-DD, and for a datetime
\* THH:MM:SS after it, with .ffffff when the microsecond is not 0.
isoformat(obj) ==
    LET Digits(n, width) ==
            [i \in 1..width |->
                << "0", "1", "2", "3", "4", "5", "6", "7", "8", "9" >>
                    [((n \div (10 ^ (width - i))) % 10) + 1]]
        Day(d) == Digits(d[1], 4) \o << "-" >> \o Digits(d[2], 2)
                      \o << "-" >> \o Digits(d[3], 2)
    IN  IF DOMAIN obj = {"date"} THEN Day(obj.date)
        ELSE LET d == obj.datetime
             IN  Day(d) \o << "T" >> \o Digits(d[4], 2) \o << ":" >>
                     \o Digits(d[5], 2) \o << ":" >> \o Digits(d[6], 2)
                     \o (IF d[7] = 0 THEN << >> ELSE << "." >> \o Digits(d[7], 6))

\* convert_dates_to_strings without the list branch.
RECURSIVE convert_dates_to_strings_NoLists(_)
convert_dates_to_strings_NoLists(obj) ==
    IF DOMAIN obj = {"dict"}
    THEN [dict |-> [i \in DOMAIN obj.dict |->
                      [k |-> obj.dict[i].k,
                       v |-> convert_dates_to_strings_NoLists(obj.dict[i].v)]]]
    ELSE IF DOMAIN obj \in {{"datetime"}, {"date"}}
    THEN [str |-> isoformat(obj)]
    ELSE obj

\* convert_dates_to_strings.
RECURSIVE convert_dates_to_strings(_)
convert_dates_to_strings(obj) ==
    IF DOMAIN obj = {"dict"}
    THEN [dict |-> [i \in DOMAIN obj.dict |->
                      [k |-> obj.dict[i].k,
                       v |-> convert_dates_to_strings(obj.dict[i].v)]]]
    ELSE IF DOMAIN obj = {"list"}
    THEN [list |-> [i \in DOMAIN obj.list |-> convert_dates_to_strings(obj.list[i])]]
    ELSE IF DOMAIN obj = {"datetime"}
    THEN [str |-> isoformat(obj)]
    ELSE IF DOMAIN obj = {"date"}
    THEN [str |-> isoformat(obj)]
    ELSE obj

\* Database.store_verification_data(verification_id, data_type, data): the
\* row holds the converted payload.
StoreVerificationData ==
    /\ call.fn = "store_verification_data"
    /\ call.pc = "called"
    /\ verification_data' = store_verification_data(verification_data,
           call.args.verification_id, call.args.data_type,
           convert_dates_to_strings(call.args.data))
    /\ call' = [call EXCEPT !.pc = "returned"]
    /\ UNCHANGED << verifications, verification_results, ubo_verifications,
                    jobs, run, api, llm_calls, external_db, reads >>

\* Every dict with values of Payloads(MaxDepth) as the data of one call.
InitStore ==
    /\ InitState
    /\ call \in [fn : {"store_verification_data"}, pc : {"called"},
                 result : {None},
                 args : [verification_id : {1},
                         data_type : {"user", "business", "additional_data"},
                         data : {[dict |-> s] :
                                    s \in UNION {[1..n -> [k : {"dob"}, v : Payloads(MaxDepth)]] :
                                                     n \in 0..1}}]]

SpecStore == InitStore /\ [][StoreVerificationData]_vars


\* ---------------------------------------------------------- catalog agents
\* login_location_analysis over the logins in the order given.
login_location_analysis_Unsorted(login_activities) ==
    LET dated == SelectSeq(login_activities, LAMBDA a : a.date # << >>)
    IN  IF \E i \in 2..Len(dated) :
              /\ dated[i].location # dated[i - 1].location
              /\ dated[i].date[1] - dated[i - 1].date[1] < 2 * 60
        THEN "failed" ELSE "passed"

\* LoginActivitiesAgent.run, check 1.  A login is a record of its date, the
\* one-element sequence of the minute datetime.fromisoformat reads from it
\* (<< >> when the login has no date), and its location ("" when it has
\* none).  The value is the status of "Login Location Analysis".
login_location_analysis(login_activities) ==
    LET dated == SelectSeq(login_activities, LAMBDA a : a.date # << >>)
        n == Len(dated)
        \* sorted(..., key=date): the stable order by date.
        order == CHOOSE p \in [1..n -> 1..n] :
                    \A i, j \in 1..n :
                       i < j => \/ dated[p[i]].date[1] < dated[p[j]].date[1]
                                \/ /\ dated[p[i]].date[1] = dated[p[j]].date[1]
                                   /\ p[i] < p[j]
        login_activities_sorted == [i \in 1..n |-> dated[order[i]]]
        impossible_travel ==
            \E i \in 2..n :
               /\ login_activities_sorted[i].location
                     # login_activities_sorted[i - 1].location
               /\ login_activities_sorted[i].date[1]
                     - login_activities_sorted[i - 1].date[1] < 2 * 60
    IN  IF impossible_travel THEN "failed" ELSE "passed"

LoginActivitiesAgentRun ==
    /\ call.fn = "LoginActivitiesAgent.run"
    /\ call.pc = "called"
    /\ call' = [call EXCEPT !.pc = "returned",
                            !.result = login_location_analysis(call.args)]
    /\ UNCHANGED << engine, llm_calls, external_db, reads >>

\* PaymentBehaviorAgent.run, check 2.  A transaction is a record of its date
\* (as for a login, in minutes) and its amount.  The value is the status of
\* "Transaction Pattern Analysis", MISSING when run() ends in its except
\* branch, whose result has no checks.
transaction_pattern_analysis(bank_accounts) ==
    LET RECURSIVE Extend(_)
        Extend(k) == IF k = 0 THEN << >>
                     ELSE Extend(k - 1) \o bank_accounts[k].last_transactions
        all_transactions == Extend(Len(bank_accounts))
        n == Len(all_transactions)
        \* the sort key: the date, datetime.min for a transaction without one.
        Key(t) == IF t.date = << >> THEN -1 ELSE t.date[1]
        order == CHOOSE p \in [1..n -> 1..n] :
                    \A i, j \in 1..n :
                       i < j => \/ Key(all_transactions[p[i]]) < Key(all_transactions[p[j]])
                                \/ /\ Key(all_transactions[p[i]]) = Key(all_transactions[p[j]])
                                   /\ p[i] < p[j]
        transactions_sorted == [i \in 1..n |-> all_transactions[order[i]]]
        large_transactions == {i \in 1..n : transactions_sorted[i].amount > 5000}
        \* datetime.fromisoformat(None) raises in the loop over the pairs.
        raises == \E i \in 2..n : \/ transactions_sorted[i].date = << >>
                                  \/ transactions_sorted[i - 1].date = << >>
        rapid_transactions ==
            {i \in 2..n : transactions_sorted[i].date[1]
                             - transactions_sorted[i - 1].date[1] < 10}
        transaction_risk == \/ Cardinality(large_transactions) > 2
                            \/ Cardinality(rapid_transactions) > 1
    IN  IF n = 0 THEN "not_applicable"
        ELSE IF raises THEN MISSING
        ELSE IF transaction_risk THEN "failed"
        ELSE "passed"

PaymentBehaviorAgentRun ==
    /\ call.fn = "PaymentBehaviorAgent.run"
    /\ call.pc = "called"
    /\ call' = [call EXCEPT !.pc = "returned",
                            !.result = transaction_pattern_analysis(call.args)]
    /\ UNCHANGED << engine, llm_calls, external_db, reads >>

\* EinLetterAgent.run, the loop over all_documents.  A document is a record
\* of is_ein_letter (a keyword in its classification), has_ein_pattern (an
\* EIN in its raw text) and extracted_data: << >> for no or an empty dict,
\* else the one-element sequence of the fields of a dict that has keys, ""
\* for a field that is missing or empty.  The value is ein_letter_data after
\* the loop, << >> for None or an empty dict.
ein_letter_data(all_documents) ==
    LET field_count(data) ==
            (IF data.ein # "" THEN 1 ELSE 0)
            + (IF data.company_name # "" THEN 1 ELSE 0)
            + (IF data.is_official_irs_letter THEN 1 ELSE 0)
            + (IF data.letter_type # "" THEN 1 ELSE 0)
        has_ein_fields(document) ==
            /\ document.extracted_data # << >>
            /\ \/ document.extracted_data[1].ein # ""
               \/ /\ document.extracted_data[1].company_name # ""
                  /\ document.has_ein_pattern
               \/ document.extracted_data[1].is_official_irs_letter
        RECURSIVE After(_)
        After(k) ==
            IF k = 0 THEN << >>
            ELSE LET document == all_documents[k]
                     extracted_data == document.extracted_data
                     first == IF document.is_ein_letter /\ After(k - 1) = << >>
                              THEN extracted_data ELSE After(k - 1)
                     second == IF has_ein_fields(document) /\ first = << >>
                               THEN extracted_data ELSE first
                 IN  IF /\ has_ein_fields(document)
                        /\ second # << >>
                        /\ field_count(extracted_data[1]) > field_count(second[1])
                     THEN extracted_data
                     ELSE second
    IN  After(Len(all_documents))

EinLetterAgentRun ==
    /\ call.fn = "EinLetterAgent.run"
    /\ call.pc = "called"
    /\ call' = [call EXCEPT !.pc = "returned",
                            !.result = ein_letter_data(call.args)]
    /\ UNCHANGED << engine, llm_calls, external_db, reads >>

\* One run of one of the three agents: every login history of up to MaxLogins
\* logins, every split over up to two accounts of up to MaxTransactions
\* transactions, every list of up to MaxDocuments documents.
InitCatalog ==
    /\ InitState
    /\ \/ call \in [fn : {"LoginActivitiesAgent.run"}, pc : {"called"},
                    result : {None},
                    args : UNION {[1..n -> [date : {<< >>, << 0 >>, << 1 >>, << 119 >>, << 120 >>},
                                            location : {"", "Tokyo", "Berlin"}]] :
                                     n \in 0..MaxLogins}]
       \/ \E n \in 0..MaxTransactions, k \in 0..MaxTransactions :
             /\ k <= n
             /\ \E ts \in [1..n -> [date : {<< >>, << 0 >>, << 9 >>, << 10 >>, << 19 >>},
                                    amount : {5000, 5001}]] :
                   call \in [fn : {"PaymentBehaviorAgent.run"}, pc : {"called"},
                             result : {None},
                             args : {<< >>,
                                     << [last_transactions |-> ts] >>,
                                     << [last_transactions |-> SubSeq(ts, 1, k)],
                                        [last_transactions |-> SubSeq(ts, k + 1, n)] >>}]
       \/ call \in [fn : {"EinLetterAgent.run"}, pc : {"called"},
                    result : {None},
                    args : UNION {[1..n -> [is_ein_letter : BOOLEAN,
                                            has_ein_pattern : BOOLEAN,
                                            extracted_data :
                                               {<< >>} \cup
                                               {<< d >> : d \in
                                                  [ein : {"", "12-3456789"},
                                                   company_name : {"", "Acme"},
                                                   is_official_irs_letter : BOOLEAN,
                                                   letter_type : {"", "CP 575"}]}]] :
                                     n \in 0..MaxDocuments}]

SpecCatalog ==
    /\ InitCatalog
    /\ [][
        \/ LoginActivitiesAgentRun
        \/ PaymentBehaviorAgentRun
        \/ EinLetterAgentRun
       ]_vars


\* ------------------------------------------------------------ worker slots
\* One Arq worker with max_jobs slots and up to max_jobs business
\* submissions, each for a business with one owner.  Only the join loop's
\* sleep takes time here; the rest of a run is taken in blocks: the business
\* run up to its join, the child's run, and the compilation after the join.

\* After n submissions of start_business_verification: n rows and n jobs,
\* all of them queued.
InitSlots ==
    /\ \E n \in 1..max_jobs :
          /\ verifications =
                [v \in 1..n |-> [user_id |-> None, business_id |-> "b1",
                                 status |-> "queued", result |-> None, reason |-> None,
                                 completed_at |-> FALSE, by |-> ByApi]]
          /\ jobs = [j \in 1..n |->
                       [function |-> "run_business_verification", verification_id |-> j,
                        subject |-> "b1", additional_data |-> None, agent_type |-> None,
                        status |-> "queued", tries |-> 0, origin |-> "api",
                        by |-> ByApi, finished |-> FALSE]]
          /\ run = [j \in 1..n |-> IdleRun]
    /\ verification_data = [v \in 1..(2 * max_jobs) |-> << >>]
    /\ verification_results = [v \in 1..(2 * max_jobs) |-> << >>]
    /\ ubo_verifications = [v \in 1..(2 * max_jobs) |-> << >>]
    /\ api = IdleApi
    /\ llm_calls = IdleLlm
    /\ external_db = NewExternalDatabase
    /\ reads = [t \in 1..MaxDbTasks |-> IdleRead]
    /\ call = NoCall

\* run_business_verification from its first status write to the call of
\* _wait_for_ubo_verifications: the row of the owner's verification, the
\* link and the child's job (acquisition and fan-out rows are left out).
RunBusinessToJoin(j) ==
    /\ Function(j) = "run_business_verification"
    /\ run[j].pc = "update_processing"
    /\ verifications' = create_verification(
           update_verification_status(verifications, Vid(j), "processing", None, None),
           "u1", None, "queued", By(j))
    /\ ubo_verifications' = store_ubo_verifications(ubo_verifications, Vid(j),
           "u1", Len(verifications) + 1, By(j))
    /\ jobs' = enqueue_job(jobs, "run_kyc_verification", Len(verifications) + 1,
                           "u1", jobs[j].subject, None, "workflow", By(j))
    /\ run' = Append([run EXCEPT ![j] = [@ EXCEPT
           !.pc = "join",
           !.ubo_verification_ids = << Len(verifications) + 1 >>]], IdleRun)
    /\ UNCHANGED << verification_data, verification_results, api, components >>

\* asyncio.sleep(check_interval) in _wait_for_ubo_verifications: the loops of
\* all waiting parents sleep at the same time.  The worker starts a queued
\* job as soon as a slot is free, and nothing else takes time, so the 30
\* seconds pass only when every job in progress is a parent asleep in its
\* loop and no queued job can start.
JoinSleep ==
    LET Asleep(j) ==
            /\ run[j].pc = "join"
            /\ run[j].elapsed_time < timeout_seconds
            /\ completed_count(run[j].ubo_verification_ids)
                  # Len(run[j].ubo_verification_ids)
    IN  /\ InProgress # {}
        /\ \A j \in InProgress : Asleep(j)
        /\ \A j \in DOMAIN jobs :
              jobs[j].status = "queued" => Cardinality(InProgress) >= max_jobs
        /\ run' = [j \in DOMAIN run |->
                      IF j \in InProgress
                      THEN [run[j] EXCEPT !.elapsed_time = @ + check_interval]
                      ELSE run[j]]
        /\ UNCHANGED << verifications, verification_data, verification_results,
                        ubo_verifications, jobs, api, components >>

\* The rest of a run in one block: run_kyc_verification of a child from its
\* first status write, run_business_verification from the compilation after
\* the join; the verification is completed and the function returns.
RunToReturn(j) ==
    /\ \/ Function(j) = "run_kyc_verification" /\ run[j].pc = "update_processing"
       \/ Function(j) = "run_business_verification" /\ run[j].pc = "compile_run"
    /\ verifications' = update_verification_status(verifications, Vid(j),
                                                   "completed", "passed", "llm reasoning")
    /\ SetRun(j, [run[j] EXCEPT !.pc = "returned", !.ret = "passed"])
    /\ UNCHANGED << verification_data, verification_results, ubo_verifications,
                    jobs, api, components >>

SpecSlots ==
    /\ InitSlots
    /\ [][
        \/ \E j \in DOMAIN jobs :
              \/ Pickup(j)
              \/ RunBusinessToJoin(j)
              \/ /\ completed_count(run[j].ubo_verification_ids)
                       = Len(run[j].ubo_verification_ids)
                 /\ WaitPoll(j)
              \/ WaitTimeout(j)
              \/ RunToReturn(j)
              \/ Finish(j)
        \/ JoinSleep
       ]_vars

\* --------------------------------------------------------------- properties
Rows(v) == verification_results[v]
CompilationRows(v) == {n \in DOMAIN Rows(v) : Rows(v)[n].agent_type \in CompilationTypes}
AcquisitionRows(v) == {n \in DOMAIN Rows(v) : Rows(v)[n].agent_type = "DataAcquisitionAgent"}

\* C1: the status of every Verification only moves queued -> processing ->
\* completed or processing -> failed; once it is completed or failed no step
\* (second status write, store_agent_result of a compilation result, a
\* redelivered job) changes it to a different status.
C1_StatusOnlyMovesForward ==
    [][\A v \in DOMAIN verifications :
          verifications'[v].status # verifications[v].status =>
              \/ /\ verifications[v].status = "queued"
                 /\ verifications'[v].status = "processing"
              \/ /\ verifications[v].status = "processing"
                 /\ verifications'[v].status \in {"completed", "failed"}]_vars

\* C2: once a Verification is completed or failed, no AgentResult row is
\* appended to it, the compilation row of the run that finished it included.
C2_NoRowAfterTerminal ==
    [][\A v \in DOMAIN verifications :
          Terminal(v) => verification_results'[v] = verification_results[v]]_vars

\* C3: a Verification has at most one compilation row, a completed one has
\* exactly one, and the compilation row is the last row by append order, also
\* after a redelivery that runs the workflow again.
C3_OneCompilationRowLast ==
    \A v \in DOMAIN verifications :
        /\ Cardinality(CompilationRows(v)) <= 1
        /\ verifications[v].status = "completed" => Cardinality(CompilationRows(v)) = 1
        /\ \A n \in CompilationRows(v) : n = Len(Rows(v))

\* C4: whenever a Verification is completed, its result and reason equal the
\* verification_result and reasoning of its compilation result, whatever
\* values the compilation agent's output holds.
C4_ResultEqualsCompilation ==
    \A v \in DOMAIN verifications :
        verifications[v].status = "completed" =>
            \A n \in CompilationRows(v) :
                /\ verifications[v].result = Rows(v)[n].verification_result
                /\ verifications[v].reason = Rows(v)[n].reasoning

\* C5: every AgentResult row of an agent other than data acquisition has a
\* DataAcquisition row of the same Verification before it, and no run holds
\* the result of another agent before that row is stored; rows of the
\* workflows and of single_agent jobs alike.
C5_AcquisitionFirst ==
    /\ \A v \in DOMAIN verifications : \A n \in DOMAIN Rows(v) :
          n \notin AcquisitionRows(v) => \E m \in AcquisitionRows(v) : m < n
    /\ \A j \in DOMAIN jobs :
          /\ run[j].pc \in {"store_results", "store_final", "store_final_row"}
          /\ jobs[j].agent_type # "DataAcquisition"
          => AcquisitionRows(Vid(j)) # {}

PastFanout == {"join", "compile_run", "store_final", "store_final_row",
               "update_final", "returned"}
PastUboLoop == {"gather", "store_results"} \cup PastFanout

\* The rows the current delivery of job j wrote for its verification.
RowsBy(j) == SelectSeq(Rows(Vid(j)), LAMBDA r : r.by = By(j))
FanoutRows(j) ==
    SelectSeq(RowsBy(j), LAMBDA r :
        r.agent_type \notin CompilationTypes \cup {"DataAcquisitionAgent"})

\* C6: in the fan-out of 10 (individual) and 5 (business) agents, for every
\* subset of agents that raise, exactly one row per agent is stored, in list
\* order: status error with checks [] for an agent that raised, the agent's
\* own result for the others; no task is cancelled; and the run goes on to
\* the join and the compilation agent, whose result it stores.
C6_FanoutSurvivesRaisingAgents ==
    \A j \in DOMAIN jobs :
        run[j].tasks # << >> =>
            LET types == AgentTypes(j)
                rows == FanoutRows(j)
                stored == IF run[j].pc = "store_results" THEN run[j].i - 1
                          ELSE Len(types)
            IN /\ Len(run[j].tasks) = Len(types)
               /\ Len(types) = IF Function(j) = "run_business_verification"
                               THEN 5 ELSE 10
               /\ Len(rows) = stored
               /\ \A n \in 1..stored :
                     IF run[j].tasks[n] = "raise"
                     THEN /\ rows[n].agent_type = types[n]
                          /\ rows[n].status = "error"
                          /\ rows[n].checks = "[]"
                     ELSE /\ rows[n].agent_type = AgentClassName(types[n])
                          /\ rows[n].status = run[j].tasks[n]
                          /\ rows[n].checks = "[checks]"
               /\ run[j].pc \in {"store_results"} \cup PastFanout
               /\ run[j].pc \in {"store_final", "store_final_row", "update_final"}
                     => run[j].final_result.agent_type \in CompilationTypes
               /\ run[j].pc \in {"update_final", "returned"}
                     => CompilationRows(Vid(j)) # {}

\* An individual run in which the first, the second and the last agent
\* raised has stored its ten rows and its compilation row.
C6_Witness ==
    \E j \in DOMAIN jobs :
        /\ Function(j) = "run_kyc_verification"
        /\ run[j].pc = "update_final"
        /\ run[j].tasks # << >>
        /\ run[j].tasks[1] = "raise" /\ run[j].tasks[2] = "raise"
        /\ run[j].tasks[3] = "success" /\ run[j].tasks[10] = "raise"
        /\ Len(FanoutRows(j)) = 10

\* What the current delivery of job j created: child verifications, links of
\* its verification, jobs.
Children(j) == {v \in DOMAIN verifications : verifications[v].by = By(j)}
LinksBy(j) == SelectSeq(ubo_verifications[Vid(j)], LAMBDA l : l.by = By(j))
JobsBy(j) == {k \in DOMAIN jobs : jobs[k].by = By(j)}

\* C7: when the DataAcquisitionAgent result has status error, the run stores
\* that single row, sets the Verification to failed with reason "Data
\* acquisition failed" and stops: no fan-out row, no child Verification, no
\* UboLink, no child job and no compilation row come from it.
C7_AcquisitionErrorStops ==
    \A j \in DOMAIN jobs :
        (\E n \in DOMAIN RowsBy(j) :
            /\ RowsBy(j)[n].agent_type = "DataAcquisitionAgent"
            /\ RowsBy(j)[n].status = "error")
        => /\ Len(RowsBy(j)) = 1
           /\ run[j].pc \in {"da_failed", "returned", "done"}
           /\ run[j].pc # "da_failed" =>
                 /\ verifications[Vid(j)].status = "failed"
                 /\ verifications[Vid(j)].reason = "Data acquisition failed"
                 /\ run[j].ret = "failed"
           /\ Children(j) = {}
           /\ LinksBy(j) = << >>
           /\ JobsBy(j) = {}

\* A business run whose acquisition failed has ended.
C7_Witness ==
    \E j \in DOMAIN jobs :
        /\ Function(j) = "run_business_verification"
        /\ run[j].pc = "done"
        /\ run[j].ret = "failed"
        /\ Len(RowsBy(j)) = 1
        /\ RowsBy(j)[1].status = "error"
        /\ verifications[Vid(j)].reason = "Data acquisition failed"

IdOwners(owners) == {n \in DOMAIN owners : Truthy(owners[n])}

C9_UboLinkage ==
    \A p \in DOMAIN verifications : \A n \in DOMAIN ubo_verifications[p] :
        LET c == ubo_verifications[p][n].ubo_verification_id
        IN /\ verifications[p].business_id # None
           /\ verifications[p].user_id = None
           /\ c \in DOMAIN verifications
           /\ verifications[c].user_id # None
           /\ verifications[c].business_id = None
           /\ \A k \in DOMAIN jobs :
                 jobs[k].verification_id = c /\ jobs[k].function = "run_kyc_verification"
                 => jobs[k].additional_data = verifications[p].business_id

Linked(c) ==
    \E p \in DOMAIN verifications : \E n \in DOMAIN ubo_verifications[p] :
        ubo_verifications[p][n].ubo_verification_id = c

\* C10: a child individual job that is in the queue, started or finished has
\* its child Verification row and its UboLink row committed, also when the
\* parent's worker was lost between two of its steps.
C10_ChildJobHasLink ==
    \A k \in DOMAIN jobs :
        jobs[k].origin \in {"workflow", "service"} =>
            /\ jobs[k].verification_id \in DOMAIN verifications
            /\ Linked(jobs[k].verification_id)

\* The parent's worker was lost after it enqueued the child, and the child's
\* job has been started.
C10_Witness ==
    \E k \in DOMAIN jobs :
        /\ jobs[k].origin = "workflow"
        /\ jobs[k].status = "in_progress"
        /\ jobs[jobs[k].by[1]].status = "queued"
        /\ jobs[jobs[k].by[1]].tries = 1
        /\ Linked(jobs[k].verification_id)

AllChildrenTerminal(j) ==
    \A n \in DOMAIN run[j].ubo_verification_ids : Terminal(run[j].ubo_verification_ids[n])

\* The business run of job j acquired its data and has launched its children:
\* it is in its fan-out or at the join.
ChildrenLaunched(j) ==
    /\ j \in DOMAIN jobs
    /\ Function(j) = "run_business_verification"
    /\ run[j].data_result.status = "success"
    /\ run[j].pc \in {"gather", "store_results", "join"}

TimedOutRun(j) ==
    /\ Function(j) = "run_business_verification"
    /\ run[j].pc = "returned"
    /\ run[j].ubo_verification_ids # << >>
    /\ run[j].elapsed_time >= timeout_seconds

C13_UboEntriesPassed ==
    \A j \in DOMAIN jobs :
        /\ Function(j) = "run_business_verification"
        /\ run[j].pc = "store_final"
        /\ ~HasError(Rows(Vid(j)))
        => /\ run[j].llm_call.called
           /\ Len(run[j].llm_call.ubo_results) = Len(run[j].ubo_verification_ids)
           /\ \A n \in DOMAIN run[j].ubo_verification_ids :
                 run[j].llm_call.ubo_results[n].verification_id
                     = run[j].ubo_verification_ids[n]

\* C14: when rows of a Verification have status error at compilation time,
\* the compilation agent still submits all rows, the error rows included, to
\* the LLM compiler, and the result is the verification_result the LLM
\* returns for them.
C14_ErrorRowsReachLLM ==
    \A j \in DOMAIN jobs :
        /\ Function(j) \in {"run_kyc_verification", "run_business_verification"}
        /\ run[j].pc = "store_final"
        /\ HasError(Rows(Vid(j)))
        => /\ run[j].llm_call.called
           /\ run[j].llm_call.agent_results = Rows(Vid(j))
           /\ ~run[j].llm_call.output.raised =>
                 run[j].final_result.verification_result
                     = Get(run[j].llm_call.output.verification_result, "failed")

\* The run of job j went through the workflow's exception handler.
Crashed(j) == run[j].pc = "returned" /\ run[j].error # None

\* C15 as stated: whenever an engine step of a workflow run raises, the
\* Verification ends failed with reason "Workflow error: <message>" and the
\* job returns a failed outcome.
C15_CrashEndsFailed ==
    \A j \in DOMAIN jobs : Crashed(j) =>
        /\ verifications[Vid(j)].status = "failed"
        /\ verifications[Vid(j)].reason = WorkflowError(run[j].error)
        /\ run[j].ret = "failed"

\* C15, amended: the job returns a failed outcome instead of raising, and the
\* Verification ends failed with result failed and reason
\* "Workflow error: <message>" unless the handler's own status write raised.
C15_CrashEndsFailedUnlessWriteFails ==
    \A j \in DOMAIN jobs : Crashed(j) =>
        /\ run[j].ret = "failed"
        /\ ~run[j].db_error =>
              /\ verifications[Vid(j)].status = "failed"
              /\ verifications[Vid(j)].result = "failed"
              /\ verifications[Vid(j)].reason = WorkflowError(run[j].error)
              /\ verifications[Vid(j)].completed_at

\* A run crashed after its first commit of the compilation result had set the
\* Verification completed, and the handler's write made it failed.
C15_Witness ==
    \E j \in DOMAIN jobs :
        /\ Crashed(j)
        /\ ~run[j].db_error
        /\ run[j].final_result.agent_type \in CompilationTypes
        /\ verifications[Vid(j)].status = "failed"
        /\ verifications[Vid(j)].reason = "Workflow error: boom"

\* Job j is being run again after an earlier delivery ran to its return.
Replay(j) ==
    /\ Function(j) \in {"run_kyc_verification", "run_business_verification"}
    /\ jobs[j].finished
    /\ jobs[j].status = "in_progress"

LastCompilationRow(v) ==
    Rows(v)[CHOOSE n \in CompilationRows(v) : \A m \in CompilationRows(v) : m <= n]

\* C16: a replay for a Verification whose earlier run already finished ends
\* with the Verification terminal again and its result equal to the
\* verification_result of the last compilation row, and the rows left by the
\* earlier run do not make it decide otherwise than on a fresh Verification:
\* when none of the replay's own rows has status error, the decision is the
\* LLM's.
C16_ReplayDecidesAsFresh ==
    \A j \in DOMAIN jobs : Replay(j) =>
        /\ run[j].pc = "store_final" /\ ~HasError(RowsBy(j)) => run[j].llm_call.called
        /\ run[j].pc = "returned" =>
              /\ Terminal(Vid(j))
              /\ CompilationRows(Vid(j)) # {}
                 /\ Truthy(LastCompilationRow(Vid(j)).verification_result)
                 => verifications[Vid(j)].result
                        = LastCompilationRow(Vid(j)).verification_result

\* The workflow job of Verification v has been enqueued.
JobEnqueued(v) ==
    \E j \in DOMAIN jobs :
        Function(j) \in {"run_kyc_verification", "run_business_verification"} /\ Vid(j) = v

\* C17: after a Verification's job has been enqueued, every write to its row
\* is made by the worker run that holds that job; no API handler, no other
\* workflow and no single_agent job writes it.
C17_SingleWriter ==
    [][\A v \in DOMAIN verifications :
          JobEnqueued(v) /\ verifications'[v] # verifications[v] =>
              \E j \in DOMAIN jobs :
                  /\ Function(j) \in {"run_kyc_verification", "run_business_verification"}
                  /\ Vid(j) = v
                  /\ jobs[j].status = "in_progress"
                  /\ run'[j] # run[j]]_vars

\* A submission or a parent workflow that has committed v's row is still
\* running and has not reached its enqueue call yet.
AboutToEnqueue(v) ==
    \/ api.pc # "idle" /\ api.verification_id = v
    \/ \E j \in DOMAIN jobs :
          /\ jobs[j].status = "in_progress"
          /\ run[j].pc \in {"ubo_link", "ubo_enqueue"}
          /\ run[j].ubo_verification_id = v

\* C18: every accepted submission creates one queued Verification row and
\* one job for it, the row committed before the job is enqueued; a queued
\* Verification always has a job, or one is about to be enqueued by a
\* still-running submission or parent, also when an enqueue call fails.
C18_QueuedHasJob ==
    /\ \A j \in DOMAIN jobs : Vid(j) \in DOMAIN verifications
    /\ \A v \in DOMAIN verifications :
          /\ Cardinality({j \in DOMAIN jobs : Vid(j) = v}) <= 1
          /\ verifications[v].status = "queued" => JobEnqueued(v) \/ AboutToEnqueue(v)

\* C19: completed_at of a Verification is set if and only if its status is
\* completed or failed, after every status write, also after a write of
\* processing made by a redelivered job to a terminal Verification.
C19_CompletedAtIffTerminal ==
    \A v \in DOMAIN verifications : verifications[v].completed_at <=> Terminal(v)

\* C20: every Verification has exactly one of user_id and business_id set,
\* rows of the two submission operations and UBO child rows alike.
C20_SubjectExclusive ==
    \A v \in DOMAIN verifications :
        (verifications[v].user_id # None) # (verifications[v].business_id # None)

\* A business row of a submission and the child row its workflow created.
C20_Witness ==
    \E p, c \in DOMAIN verifications :
        /\ verifications[p].by = ByApi
        /\ verifications[p].business_id \in Businesses
        /\ verifications[c].by # ByApi
        /\ verifications[c].user_id \in Users

\* The individual run of job j met an external record store whose
\* inquiry-id lookup fails, and has returned.
LookupFailed(j) ==
    /\ Function(j) = "run_kyc_verification"
    /\ run[j].pc = "returned"
    /\ run[j].external.inquiry = "fails"

OnlyAcquisitionError(v) ==
    /\ Len(Rows(v)) = 1
    /\ Rows(v)[1].agent_type = "DataAcquisitionAgent"
    /\ Rows(v)[1].status = "error"

BusinessInputs(v) ==
    SelectSeq(verification_data[v], LAMBDA d : d.data_type = "business")

\* C22: for a business whose external record exists with a user id and whose
\* owner table has k owners with a user id, acquisition persists a `business`
\* input whose ubos[] has exactly k entries, one per such owner in table
\* order; owners without a user id contribute no entry.
C22_OneUboPerOwner ==
    \A j \in DOMAIN jobs :
        /\ Function(j) = "run_business_verification"
        /\ run[j].pc \in {"da_store", "da_failed", "returned"} \cup PastUboLoop
        /\ run[j].external.record = "found"
        /\ Truthy(run[j].external.record_user_id)
        /\ run[j].external.persist
        => /\ Len(BusinessInputs(Vid(j))) = 1
           /\ BusinessInputs(Vid(j))[1].data = AcquiredUbos(run[j].external.owners)

\* C23: at any time at most max_connections (10) LLM invocations are in
\* flight in the worker process, the calls made under the connection pool and
\* the classification and extraction calls of the document pipeline together.
C23_AtMostTenInFlight == InFlight <= max_connections

\* C24: every read of the external record store that fails makes at most
\* max_retries (3) attempts, sleeps retry_delay * 2^attempt (0.5 s, 1 s)
\* between consecutive attempts, and discards the connection pool after each
\* operational error before it goes on.
C24_RetriesBackoffReset ==
    \A t \in 1..MaxDbTasks :
        LET r == reads[t]
        IN  /\ r.attempt + 1 <= max_retries
            /\ Len(r.sleeps) <= max_retries - 1
            /\ \A i \in DOMAIN r.sleeps : r.sleeps[i] = retry_delay * 2 ^ (i - 1)
            /\ r.kept = 0

\* C25: no read of the external record store raises to its caller, and a
\* read all of whose attempts failed returns the mock fallback record.
C25_FailedReadReturnsMock ==
    \A t \in 1..MaxDbTasks :
        /\ reads[t].pc # "raised"
        /\ reads[t].pc = "returned" /\ reads[t].failed => reads[t].result = MockRecord

\* C26: every write that resets the shared pool is made by a task that holds
\* connection_lock, and at most one pool creation is in progress at any time.
C26_PoolResetUnderLock ==
    /\ \A w \in external_db.pool_writes : w.locked
    /\ Cardinality({t \in 1..MaxDbTasks : reads[t].pc = "create_pool"}) <= 1

\* The position in the table of the row written by run j for the agent at
\* position k of its agent list, 0 when there is none yet.
RowOf(j, k) ==
    LET rows == Rows(Vid(j))
        mine == {n \in DOMAIN rows :
                    /\ rows[n].by = By(j)
                    /\ rows[n].agent_type \in {AgentTypes(j)[k], AgentClassName(AgentTypes(j)[k])}}
    IN IF mine = {} THEN 0 ELSE CHOOSE n \in mine : \A m \in mine : n <= m

\* C27: within a verification, when fan-out agent X finished running before
\* fan-out agent Y, the row of X is appended before the row of Y.
C27_RowsInCompletionOrder ==
    \A j \in DOMAIN jobs :
        \A a, b \in DOMAIN run[j].completed :
            LET x == run[j].completed[a]
                y == run[j].completed[b]
            IN a < b /\ RowOf(j, x) # 0 /\ RowOf(j, y) # 0 => RowOf(j, x) < RowOf(j, y)

\* C28: run() of every agent returns to its caller, and when something failed
\* inside it (or run is not implemented) the result has status error and
\* checks equal to the empty list.
C28_RunReturnsErrorResult ==
    call.fn = "run" /\ call.pc = "returned"
        /\ (call.args.e # None \/ call.args.agent_type = "BaseAgent")
        => /\ call.result.status = "error"
           /\ call.result.checks = "[]"

\* The key of a request is unknown, inactive or expired.
BadKey(request) ==
    ~request.api_key.found \/ ~request.api_key.is_active \/ request.api_key.expired

\* The payload of a request is malformed: the id is missing or empty, or
\* additional_data is given and is not an object.
Malformed(request) ==
    \/ request.body.id \in {MISSING, ""}
    \/ request.body.additional_data \in {"null", "[array]"}

C30_ParsedOrRawWithError ==
    call.fn = "extract_structured_data" /\ call.pc = "returned"
        => /\ ~call.result.raised
           /\ \/ call.result.parsed
              \/ {"raw_response", "parse_error"} \subseteq call.result.keys

\* The date the text of an ISO-8601 string denotes, read digit by digit:
\* << year, month, day >>, with hour, minute, second and microsecond after
\* them when the text has a time part; << >> when the text is no such string.
FromIso(text) ==
    LET Digit(c) == CHOOSE n \in 0..9 :
                        << "0", "1", "2", "3", "4", "5", "6", "7", "8", "9" >>[n + 1] = c
        IsDigits(S) == \A i \in S : text[i] \in {"0", "1", "2", "3", "4", "5", "6", "7", "8", "9"}
        Number(from, to) ==
            LET RECURSIVE Upto(_)
                Upto(i) == IF i < from THEN 0 ELSE 10 * Upto(i - 1) + Digit(text[i])
            IN  Upto(to)
        IsDay == /\ Len(text) >= 10
                 /\ IsDigits({1, 2, 3, 4, 6, 7, 9, 10})
                 /\ text[5] = "-" /\ text[8] = "-"
        IsTime == /\ Len(text) >= 19
                  /\ text[11] = "T" /\ text[14] = ":" /\ text[17] = ":"
                  /\ IsDigits({12, 13, 15, 16, 18, 19})
        Day == << Number(1, 4), Number(6, 7), Number(9, 10) >>
        Time == << Number(12, 13), Number(15, 16), Number(18, 19) >>
    IN  IF IsDay /\ Len(text) = 10 THEN Day
        ELSE IF IsDay /\ IsTime /\ Len(text) = 19 THEN Day \o Time \o << 0 >>
        ELSE IF IsDay /\ IsTime /\ Len(text) = 26 /\ text[20] = "." /\ IsDigits(21..26)
        THEN Day \o Time \o << Number(21, 26) >>
        ELSE << >>

\* stored is given with every date and datetime replaced by a string that
\* denotes it, and nothing else changed.
RECURSIVE Normalized(_, _)
Normalized(given, stored) ==
    IF DOMAIN given = {"date"}
    THEN DOMAIN stored = {"str"} /\ FromIso(stored.str) = given.date
    ELSE IF DOMAIN given = {"datetime"}
    THEN DOMAIN stored = {"str"} /\ FromIso(stored.str) = given.datetime
    ELSE IF DOMAIN given = {"list"}
    THEN /\ DOMAIN stored = {"list"}
         /\ Len(stored.list) = Len(given.list)
         /\ \A i \in DOMAIN given.list : Normalized(given.list[i], stored.list[i])
    ELSE IF DOMAIN given = {"dict"}
    THEN /\ DOMAIN stored = {"dict"}
         /\ Len(stored.dict) = Len(given.dict)
         /\ \A i \in DOMAIN given.dict :
               /\ stored.dict[i].k = given.dict[i].k
               /\ Normalized(given.dict[i].v, stored.dict[i].v)
    ELSE DOMAIN stored = DOMAIN given /\ stored = given

\* A date or datetime somewhere in the value.
RECURSIVE HasDate(_)
HasDate(obj) ==
    \/ DOMAIN obj \in {{"date"}, {"datetime"}}
    \/ /\ DOMAIN obj = {"list"}
       /\ \E i \in DOMAIN obj.list : HasDate(obj.list[i])
    \/ /\ DOMAIN obj = {"dict"}
       /\ \E i \in DOMAIN obj.dict : HasDate(obj.dict[i].v)

\* C31: the payload of every VerificationInput row holds no date or datetime
\* at any depth of dicts and lists: it is the payload given to
\* store_verification_data with each date and datetime replaced by its
\* ISO-8601 string and every other value as given.
C31_StoredPayloadHasNoDates ==
    call.pc = "returned" =>
        /\ Len(verification_data[1]) = 1
        /\ \A n \in DOMAIN verification_data[1] :
              /\ ~HasDate(verification_data[1][n].data)
              /\ Normalized(call.args.data, verification_data[1][n].data)
              /\ verification_data[1][n].data_type = call.args.data_type

\* A payload with a datetime inside a dict inside a list has been stored.
C31_Witness ==
    /\ call.pc = "returned"
    /\ call.fn = "store_verification_data"
    /\ Len(verification_data[1]) = 1
    /\ \E l \in {call.args.data.dict[i].v : i \in DOMAIN call.args.data.dict} :
          /\ DOMAIN l = {"list"}
          /\ Len(l.list) = 2
          /\ DOMAIN l.list[2] = {"dict"}
          /\ Len(l.list[2].dict) = 1
          /\ DOMAIN l.list[2].dict[1].v = {"datetime"}
          /\ l.list[2].dict[1].v.datetime[7] # 0

\* C32: "Login Location Analysis" is failed exactly when some two dated logins,
\* consecutive in time order or not, are at different locations and less than
\* 2 hours apart, and passed otherwise.
C32_AnyPairImpossibleTravel ==
    (call.fn = "LoginActivitiesAgent.run" /\ call.pc = "returned") =>
        call.result =
            IF \E i, j \in DOMAIN call.args :
                  /\ i # j
                  /\ call.args[i].date # << >> /\ call.args[j].date # << >>
                  /\ call.args[i].location # call.args[j].location
                  /\ call.args[i].date[1] - call.args[j].date[1] < 120
                  /\ call.args[j].date[1] - call.args[i].date[1] < 120
            THEN "failed" ELSE "passed"

\* Three dated logins, not given in time order, whose earliest and latest are
\* at different locations less than 2 hours apart: the check is failed.
C32_Witness ==
    /\ call.fn = "LoginActivitiesAgent.run"
    /\ call.pc = "returned"
    /\ Len(call.args) = 3
    /\ \A i \in 1..3 : call.args[i].date # << >>
    /\ call.args[3].date[1] < call.args[2].date[1]
    /\ call.args[2].date[1] < call.args[1].date[1]
    /\ call.args[1].date[1] - call.args[3].date[1] < 120
    /\ call.args[1].location # call.args[3].location
    /\ call.result = "failed"

\* C33: "Transaction Pattern Analysis" is not_applicable without transactions,
\* failed when more than 2 transactions are above 5000 or two transactions
\* are less than 10 minutes apart, and passed for every other history.
C33_TransactionPattern ==
    (call.fn = "PaymentBehaviorAgent.run" /\ call.pc = "returned") =>
        LET ts == IF Len(call.args) = 0 THEN << >>
                  ELSE IF Len(call.args) = 1 THEN call.args[1].last_transactions
                  ELSE call.args[1].last_transactions \o call.args[2].last_transactions
            large == {i \in DOMAIN ts : ts[i].amount > 5000}
            rapid == \E i, j \in DOMAIN ts :
                        /\ i # j
                        /\ ts[i].date # << >> /\ ts[j].date # << >>
                        /\ ts[i].date[1] - ts[j].date[1] < 10
                        /\ ts[j].date[1] - ts[i].date[1] < 10
        IN  call.result = IF ts = << >> THEN "not_applicable"
                          ELSE IF Cardinality(large) > 2 \/ rapid THEN "failed"
                          ELSE "passed"

\* C34: after the loop over the documents, the EIN-letter data the checks use
\* is the extracted data of a candidate (a document matched by keyword or by
\* EIN content) with the most non-empty fields of all candidates.
C34_MostFieldsWins ==
    (call.fn = "EinLetterAgent.run" /\ call.pc = "returned") =>
        LET Count(x) == IF x = << >> THEN 0
                        ELSE (IF x[1].ein # "" THEN 1 ELSE 0)
                             + (IF x[1].company_name # "" THEN 1 ELSE 0)
                             + (IF x[1].is_official_irs_letter THEN 1 ELSE 0)
                             + (IF x[1].letter_type # "" THEN 1 ELSE 0)
            candidates ==
                {i \in DOMAIN call.args :
                    \/ call.args[i].is_ein_letter
                    \/ /\ call.args[i].extracted_data # << >>
                       /\ \/ call.args[i].extracted_data[1].ein # ""
                          \/ /\ call.args[i].extracted_data[1].company_name # ""
                             /\ call.args[i].has_ein_pattern
                          \/ call.args[i].extracted_data[1].is_official_irs_letter}
        IN  /\ \A i \in candidates : Count(call.result) >= Count(call.args[i].extracted_data)
            /\ call.result # << >> =>
                  \E i \in candidates : call.args[i].extracted_data = call.result

C36_ReleasedIntoItsPool ==
    \A t \in DOMAIN reads : reads[t].fate \in {None, "released"}

\* C37: get_connection does not deadlock: no task takes the is_connecting
\* branch, in which it would call get_connection again and wait for
\* connection_lock while holding it, and no task stays inside get_connection
\* for ever: each call ends with a connection or with an exception.
C37_GetConnectionEnds ==
    /\ [](\A t \in DOMAIN reads : reads[t].pc # "get_connection_again")
    /\ \A t \in 1..MaxDbTasks :
          []<>(reads[t].pc \notin {"get_connection", "get_connection_again",
                                   "create_pool", "acquire"})

\* A task waits for connection_lock while another task is creating the pool
\* under it, after a pool creation has failed.
C37_Witness ==
    /\ external_db.connection_lock = 1
    /\ external_db.is_connecting
    /\ reads[1].pc = "create_pool"
    /\ reads[2].pc = "get_connection"
    /\ \E w \in external_db.pool_writes : w.line = 55

\* C38: a Verification whose status is completed or failed has a result that
\* is set and is passed or failed, and one whose status is failed has result
\* failed, whatever the compilation LLM returned.
C38_TerminalHasVerdict ==
    \A v \in DOMAIN verifications :
        /\ verifications[v].status \in {"completed", "failed"}
              => verifications[v].result \in {"passed", "failed"}
        /\ verifications[v].status = "failed" => verifications[v].result = "failed"

\* C39: GET /job-status/{job_id} answers 404 "Job not found" when the job
\* service returned no status for the id, and answers 500 only when a step of
\* the lookup raised.
C39_NoStatusIs404 ==
    (call.fn = "get_job_status" /\ call.pc = "answered") =>
        /\ call.result.status = None =>
              /\ call.result.status_code = 404
              /\ call.result.detail = "Job not found"
        /\ call.result.status_code = 500 => call.args.e # None

====
